---- MODULE Spec2Model ----
(***************************************************************************)
(* A model of the terminal text editor: the Buffer (lines of grapheme      *)
(* fragments with a cached raw_string), the View (cursor, screen offset,    *)
(* size) and the mode controllers (normal mode, quit prompt, filename       *)
(* entry, jump-to-line, Vim mode with its colon queue, search, highlight),  *)
(* together with the file the buffer is loaded from and saved to.           *)
(*                                                                          *)
(* Text is modelled at two levels, as the code has them: a line's `string`  *)
(* is a sequence of graphemes (one-character strings), its `raw_string` and *)
(* the file on disk are sequences of bytes.  The grapheme "W" stands for a  *)
(* double-width character that takes three bytes in UTF-8.                  *)
(***************************************************************************)
EXTENDS Integers, Sequences, FiniteSets, TLC

VARIABLES
    text,             \* Buffer.text: sequence of lines [string, raw_string]
    filename,         \* Buffer.filename: <<>> (None) or <<name>> (Some(name))
    is_saved,         \* Buffer.is_saved
    cursor_position,  \* View.cursor_position [height, width]
    screen_offset,    \* View.screen_offset [height, width]
    size,             \* View.size [height, width]
    render_help,      \* View.help_indicator.render_help
    should_quit,      \* Editor.should_quit
    mode,             \* which loop holds the input: normal, prompt, filename,
                      \* jump, vim, colon, search, highlight, done (run
                      \* returned), panic
    fatal,            \* the message of the panic that ended the session, or ""
    disk,             \* the file named by the buffer: <<>> (absent) or <<bytes>>
    last,             \* the command or event handled by the last step
    line,             \* jump_cursor: the line number typed so far
    filename_buffer,  \* get_file_name: the name typed so far
    caller,           \* get_file_name: who asked for the name (save or quit)
    vim_cursor,       \* VimMode.cursor_position
    vim_offset,       \* VimMode.screen_offset
    vim_size,         \* VimMode.size
    vim_max_width,    \* VimMode.cursor_position.max_width: the remembered
                      \* column, <<>> or <<column>>
    queue,            \* queue_colon: the characters queued so far
    events,           \* number of input events handled so far
    first_load,       \* the lines produced by the first load of the file
    string,           \* Search.string: the query typed so far
    stack,            \* Search.stack: one result list per query character
    search_index,     \* Search.search_index
    previous_position,\* Search.previous_position
    previous_offset,  \* Search.previous_offset
    line_indicies,    \* Search.line_indicies: the rows that hold a hit
    render_search,    \* Search.render_search
    end,              \* handle_highlight: the moving endpoint
    highlight_render, \* Highlight.render
    copy_span,        \* the span last handed to a copy routine: <<>> or
                      \* <<[start, end]>>
    copy_string,      \* what Buffer::get_segment returned: <<>> or <<bytes>>
    rendered          \* what View::render last drew: <<>> or <<[start, end,
                      \* rows]>>, rows mapping a buffer row to its items

bufvars  == <<text, filename, is_saved>>
viewvars == <<cursor_position, screen_offset, size, render_help>>
vimvars  == <<vim_cursor, vim_offset, vim_size, queue, vim_max_width>>
subvars  == <<line, filename_buffer, caller>>
srchvars == <<string, stack, search_index, previous_position, previous_offset,
              line_indicies, render_search>>
hlvars   == <<end, highlight_render, copy_span, copy_string>>
loopvars == <<srchvars, hlvars, rendered>>
vars == <<text, filename, is_saved, cursor_position, screen_offset, size,
          render_help, should_quit, mode, fatal, disk, last, line,
          filename_buffer, caller, vim_cursor, vim_offset, vim_size,
          vim_max_width, queue,
          events, first_load, string, stack, search_index, previous_position,
          previous_offset, line_indicies, render_search, end, highlight_render,
          copy_span, copy_string,
          rendered>>

----------------------------------------------------------------------------
(* Bounds of the model *)

MaxLineLen == 6
MaxLines == 4
MaxEvents == 4
MaxFileLen == 4
MaxQueue == 2
MaxName == 1
MaxJump == 4
MaxTyped == 2
MaxQuery == 2
MaxIndent == 8

----------------------------------------------------------------------------
(* usize arithmetic *)

Min(a, b) == IF a < b THEN a ELSE b
Max(a, b) == IF a > b THEN a ELSE b
SatSub(a, b) == IF a > b THEN a - b ELSE 0

Pos(h, w) == [height |-> h, width |-> w]

----------------------------------------------------------------------------
(* Characters, bytes and lines *)

NL == "\n"
CR == "\r"
SP == " "

\* GraphemeWidth of a grapheme: Full (2 columns) for "W", Half (1) otherwise
RenderWidth(g) == IF g = "W" THEN 2 ELSE 1

\* the UTF-8 bytes of one character
Utf8(c) == IF c = "W" THEN <<"E6", "BC", "A2">> ELSE <<c>>

RECURSIVE Encode(_)
Encode(chars) ==
    IF chars = <<>> THEN <<>>
    ELSE Utf8(Head(chars)) \o Encode(Tail(chars))

\* read_to_string's UTF-8 validation and decoding; ok = FALSE on invalid UTF-8
RECURSIVE Decode(_)
Decode(bytes) ==
    IF bytes = <<>> THEN [ok |-> TRUE, chars |-> <<>>]
    ELSE IF Head(bytes) = "E6"
         THEN IF Len(bytes) >= 3 /\ bytes[2] = "BC" /\ bytes[3] = "A2"
              THEN LET r == Decode(SubSeq(bytes, 4, Len(bytes)))
                   IN  [ok |-> r.ok, chars |-> <<"W">> \o r.chars]
              ELSE [ok |-> FALSE, chars |-> <<>>]
         ELSE IF Head(bytes) \in {"BC", "A2"}
              THEN [ok |-> FALSE, chars |-> <<>>]
              ELSE LET r == Decode(Tail(bytes))
                   IN  [ok |-> r.ok, chars |-> <<Head(bytes)>> \o r.chars]

\* str::lines: split at "\n", a "\r" right before the "\n" belongs to the
\* line ending; a last line without "\n" is a line as it stands
StripCR(l) ==
    IF Len(l) > 0 /\ l[Len(l)] = CR THEN SubSeq(l, 1, Len(l) - 1) ELSE l

RECURSIVE LinesFrom(_, _, _, _)
LinesFrom(s, i, cur, out) ==
    IF i > Len(s)
    THEN IF cur = <<>> THEN out ELSE Append(out, cur)
    ELSE IF s[i] = NL
         THEN LinesFrom(s, i + 1, <<>>, Append(out, StripCR(cur)))
         ELSE LinesFrom(s, i + 1, Append(cur, s[i]), out)

Lines(s) == LinesFrom(s, 1, <<>>, <<>>)

\* Line::generate_raw_string: the fragments' graphemes in order
generate_raw_string(l) == [l EXCEPT !.raw_string = Encode(l.string)]

\* Line::from: one fragment per grapheme
LineFrom(chars) == [string |-> chars, raw_string |-> Encode(chars)]

EmptyLine == [string |-> <<>>, raw_string |-> <<>>]

RECURSIVE SumWidth(_)
SumWidth(frags) ==
    IF frags = <<>> THEN 0
    ELSE RenderWidth(Head(frags)) + SumWidth(Tail(frags))

grapheme_len(l) == SumWidth(l.string)

\* Line's Display: the line's raw text
to_string(l) == l.raw_string

----------------------------------------------------------------------------
(* Vec operations, with 0-based indices as in the code *)

VecInsert(s, i, e) == SubSeq(s, 1, i) \o <<e>> \o SubSeq(s, i + 1, Len(s))
VecRemove(s, i) == SubSeq(s, 1, i) \o SubSeq(s, i + 2, Len(s))
Repeat(e, n) == [k \in 1..n |-> e]

\* the result of an operation that panicked
Panic(msg) == [ok |-> FALSE, msg |-> msg]

----------------------------------------------------------------------------
(* Buffer: b is [text, is_saved]; a position is [height, width] *)

\* Buffer::is_tab: the four fragments left of pos.width are spaces.
\* Panics ("Out of bounds") when pos.width >= 4 and the row does not exist;
\* callers check IsTabPanics first.
IsTabPanics(t, pos) == pos.width >= 4 /\ pos.height >= Len(t)

is_tab(t, pos) ==
    IF pos.width < 4 THEN FALSE
    ELSE LET s == t[pos.height + 1].string
         IN  IF pos.width > Len(s) THEN FALSE
             ELSE \A k \in (pos.width - 3)..pos.width : s[k] = SP

\* Buffer::num_tabs: counts from byte 5 of raw_string, then divides by 4
RECURSIVE NumTabsScan(_, _)
NumTabsScan(bytes, i) ==
    IF i < Len(bytes) /\ bytes[i + 1] = SP THEN NumTabsScan(bytes, i + 1) ELSE i

num_tabs(t, index) == NumTabsScan(t[index + 1].raw_string, 5) \div 4

\* Buffer::insert_tab(pos, num_tabs): 4 * num_tabs space fragments at pos.width
insert_tab(b, pos, n) ==
    LET t0 == IF b.text = <<>> THEN <<EmptyLine>> ELSE b.text
    IN  IF pos.height >= Len(t0) THEN Panic("Out of bounds")
        ELSE LET l == t0[pos.height + 1]
             IN  IF n > 0 /\ pos.width > Len(l.string)
                 THEN Panic("insertion index out of bounds")
                 ELSE LET s == SubSeq(l.string, 1, pos.width) \o Repeat(SP, 4 * n)
                               \o SubSeq(l.string, pos.width + 1, Len(l.string))
                          nl == generate_raw_string([l EXCEPT !.string = s])
                      IN  [ok |-> TRUE,
                           text |-> [t0 EXCEPT ![pos.height + 1] = nl],
                           is_saved |-> b.is_saved]

\* Buffer::update_line_insert: one fragment at index pos.width
update_line_insert(b, pos, c) ==
    LET move_width == RenderWidth(c)
    IN  IF b.text = <<>>
        THEN IF pos.height # 0 THEN Panic("Out of bounds error")
             ELSE [ok |-> TRUE, text |-> <<LineFrom(<<c>>)>>, is_saved |-> FALSE,
                   pos |-> Pos(pos.height, pos.width + move_width)]
        ELSE IF pos.height >= Len(b.text) THEN Panic("Error getting mut line")
        ELSE LET l == b.text[pos.height + 1]
             IN  IF pos.width > Len(l.string)
                 THEN Panic("insertion index out of bounds")
                 ELSE LET nl == generate_raw_string(
                                  [l EXCEPT !.string = VecInsert(l.string, pos.width, c)])
                      IN  [ok |-> TRUE,
                           text |-> [b.text EXCEPT ![pos.height + 1] = nl],
                           is_saved |-> FALSE,
                           pos |-> Pos(pos.height, pos.width + move_width)]

\* an update_line_delete that takes a tab's spaces away one at a time
update_line_delete_one_space(b, pos) ==
    IF IsTabPanics(b.text, pos) THEN Panic("Out of bounds")
    ELSE IF pos.height >= Len(b.text) THEN Panic("Out of bounds error")
    ELSE LET l == b.text[pos.height + 1]
             i == SatSub(pos.width, 1)
         IN  IF i >= Len(l.string) THEN Panic("removal index out of bounds")
             ELSE LET nl == generate_raw_string(
                              [l EXCEPT !.string = VecRemove(l.string, i)])
                  IN  [ok |-> TRUE,
                       text |-> [b.text EXCEPT ![pos.height + 1] = nl],
                       is_saved |-> FALSE,
                       removed |-> RenderWidth(l.string[i + 1])]

\* Buffer::update_line_delete: a run of four spaces goes as one unit and the
\* function returns at once; otherwise the fragment at pos.width - 1 goes.
\* removed is the width the cursor moves left by.
update_line_delete(b, pos) ==
    IF IsTabPanics(b.text, pos) THEN Panic("Out of bounds")
    ELSE IF is_tab(b.text, pos)
    THEN LET l == b.text[pos.height + 1]
             s == SubSeq(l.string, 1, pos.width - 4)
                  \o SubSeq(l.string, pos.width + 1, Len(l.string))
         IN  [ok |-> TRUE,
              text |-> [b.text EXCEPT ![pos.height + 1] = [l EXCEPT !.string = s]],
              is_saved |-> b.is_saved,
              removed |-> 4]
    ELSE IF pos.height >= Len(b.text) THEN Panic("Out of bounds error")
    ELSE LET l == b.text[pos.height + 1]
             i == SatSub(pos.width, 1)
         IN  IF i >= Len(l.string) THEN Panic("removal index out of bounds")
             ELSE LET nl == generate_raw_string(
                              [l EXCEPT !.string = VecRemove(l.string, i)])
                  IN  [ok |-> TRUE,
                       text |-> [b.text EXCEPT ![pos.height + 1] = nl],
                       is_saved |-> FALSE,
                       removed |-> RenderWidth(l.string[i + 1])]

\* a new_line that inserts the empty line at line_index instead of after it
new_line_at_row(b, line_index) ==
    LET t0 == IF b.text = <<>> THEN <<EmptyLine>> ELSE b.text
    IN  [ok |-> TRUE, text |-> VecInsert(t0, line_index, EmptyLine), is_saved |-> FALSE]

\* Buffer::new_line: an empty line after line_index, indented like that line
new_line(b, line_index) ==
    LET t0 == IF b.text = <<>> THEN <<EmptyLine>> ELSE b.text
    IN  IF line_index + 1 > Len(t0) THEN Panic("insertion index out of bounds")
        ELSE LET t1 == VecInsert(t0, line_index + 1, EmptyLine)
             IN  IF is_tab(t1, Pos(line_index, 4))
                 THEN LET r == insert_tab([text |-> t1, is_saved |-> b.is_saved],
                                          Pos(line_index + 1, 0),
                                          num_tabs(t1, line_index))
                      IN  [ok |-> TRUE, text |-> r.text, is_saved |-> FALSE]
                 ELSE [ok |-> TRUE, text |-> t1, is_saved |-> FALSE]

\* Buffer::split_line: the fragments from pos.width on become the next line;
\* raw_string is regenerated for the new line only
split_line(b, pos) ==
    IF pos.height >= Len(b.text) THEN Panic("Out of bounds error")
    ELSE LET l == b.text[pos.height + 1]
         IN  IF pos.width > Len(l.string) THEN Panic("Out of bounds error")
             ELSE LET suffix == SubSeq(l.string, pos.width + 1, Len(l.string))
                      prefix == SubSeq(l.string, 1, pos.width)
                      t1 == VecInsert(b.text, pos.height + 1,
                                      generate_raw_string(
                                          [string |-> suffix, raw_string |-> <<>>]))
                  IN  [ok |-> TRUE,
                       text |-> [t1 EXCEPT ![pos.height + 1] =
                                     [l EXCEPT !.string = prefix]],
                       is_saved |-> FALSE]

\* a join_line that puts line_index's fragments in front of the line above
join_line_prepends(b, line_index) ==
    IF line_index >= Len(b.text) THEN Panic("Out of bounds error")
    ELSE LET cur == b.text[line_index + 1].string
             t1 == VecRemove(b.text, line_index)
             up == SatSub(line_index, 1)
         IN  IF up >= Len(t1) THEN Panic("Out of bounds error")
             ELSE LET l == t1[up + 1]
                      nl == generate_raw_string([l EXCEPT !.string = cur \o l.string])
                  IN  [ok |-> TRUE, text |-> [t1 EXCEPT ![up + 1] = nl],
                       is_saved |-> FALSE]

\* Buffer::join_line: line_index's fragments go to the end of the line above
join_line(b, line_index) ==
    IF line_index >= Len(b.text) THEN Panic("Out of bounds error")
    ELSE LET cur == b.text[line_index + 1].string
             t1 == VecRemove(b.text, line_index)
             up == SatSub(line_index, 1)
         IN  IF up >= Len(t1) THEN Panic("Out of bounds error")
             ELSE LET l == t1[up + 1]
                      nl == generate_raw_string([l EXCEPT !.string = l.string \o cur])
                  IN  [ok |-> TRUE, text |-> [t1 EXCEPT ![up + 1] = nl],
                       is_saved |-> FALSE]

\* Buffer::add_text_from_clipboard: the first pasted line goes in at the
\* cursor, each further one at column 0 of the next row, or is pushed as a new
\* line once the row is past the buffer's last row
RECURSIVE InsertAll(_, _, _)
InsertAll(b, pos, chars) ==
    IF chars = <<>>
    THEN [ok |-> TRUE, text |-> b.text, is_saved |-> b.is_saved, pos |-> pos]
    ELSE LET r == update_line_insert(b, pos, Head(chars))
         IN  IF ~r.ok THEN r
             ELSE InsertAll([text |-> r.text, is_saved |-> r.is_saved], r.pos,
                            Tail(chars))

RECURSIVE PasteLines(_, _, _, _, _)
PasteLines(b, pos, buff_len, ls, i) ==
    IF i > Len(ls)
    THEN [ok |-> TRUE, text |-> b.text, is_saved |-> b.is_saved, pos |-> pos]
    ELSE LET p1 == IF i # 1 THEN Pos(pos.height + 1, 0) ELSE pos
         IN  IF p1.height > buff_len
             THEN PasteLines([b EXCEPT !.text = Append(b.text, LineFrom(ls[i]))],
                             p1, buff_len + 1, ls, i + 1)
             ELSE LET r == InsertAll(b, p1, ls[i])
                  IN  IF ~r.ok THEN r
                      ELSE PasteLines([text |-> r.text, is_saved |-> r.is_saved],
                                      r.pos, buff_len, ls, i + 1)

add_text_from_clipboard(b, paste_text, pos) ==
    PasteLines(b, pos, IF b.text = <<>> THEN 0 ELSE Len(b.text) - 1,
               Lines(paste_text), 1)

\* Buffer::load: Err when the file cannot be read as UTF-8 text
load(file) ==
    IF file = <<>> THEN [ok |-> FALSE]
    ELSE LET d == Decode(file[1])
         IN  IF ~d.ok THEN [ok |-> FALSE]
             ELSE LET ls == Lines(d.chars)
                  IN  [ok |-> TRUE, text |-> [k \in 1..Len(ls) |-> LineFrom(ls[k])]]

\* the bytes Buffer::save writes: every line followed by "\n"
RECURSIVE SaveBytes(_)
SaveBytes(t) ==
    IF t = <<>> THEN <<>>
    ELSE to_string(Head(t)) \o <<NL>> \o SaveBytes(Tail(t))

\* the file after save: opened with write and create but without truncate,
\* the bytes are written from offset 0 over what the file held
WriteOver(file, bytes) ==
    IF file = <<>> THEN <<bytes>>
    ELSE <<bytes \o SubSeq(file[1], Len(bytes) + 1, Len(file[1]))>>

----------------------------------------------------------------------------
(* Word motions of a line (Line's word helpers): a word starts at a non-space *)
(* fragment that is first in the line or follows a space                     *)

WordStart(s, i) == s[i + 1] # SP /\ (i = 0 \/ s[i] = SP)
WordStarts(s) == {i \in 0..(Len(s) - 1) : WordStart(s, i)}
SetMin(S) == CHOOSE x \in S : \A y \in S : x <= y
SetMax(S) == CHOOSE x \in S : \A y \in S : x >= y
Some(x) == <<x>>
None == <<>>

get_next_word(l, w) ==
    LET c == {i \in WordStarts(l.string) : i > w}
    IN  IF c = {} THEN None ELSE Some(SetMin(c))
next_word_spillover(l) ==
    IF WordStarts(l.string) = {} THEN None ELSE Some(SetMin(WordStarts(l.string)))
get_prev_word(l, w) ==
    LET c == {i \in WordStarts(l.string) : i < w}
    IN  IF c = {} THEN None ELSE Some(SetMax(c))
get_prev_word_spillover(l) ==
    IF WordStarts(l.string) = {} THEN None ELSE Some(SetMax(WordStarts(l.string)))

\* Buffer::find_prev_word
RECURSIVE PrevWordUp(_, _)
PrevWordUp(t, h) ==
    IF h > 0
    THEN LET r == get_prev_word_spillover(t[h])
         IN  IF r # None THEN Pos(h - 1, r[1]) ELSE PrevWordUp(t, h - 1)
    ELSE Pos(h, 0)

find_prev_word(t, pos) ==
    IF t = <<>> THEN pos
    ELSE LET r == get_prev_word(t[pos.height + 1], pos.width)
         IN  IF r # None THEN Pos(pos.height, r[1]) ELSE PrevWordUp(t, pos.height)

\* Buffer::find_next_word
RECURSIVE NextWordDown(_, _)
NextWordDown(t, h) ==
    IF h < SatSub(Len(t), 1)
    THEN LET r == next_word_spillover(t[h + 2])
         IN  IF r # None THEN Pos(h + 1, r[1]) ELSE NextWordDown(t, h + 1)
    ELSE Pos(h, grapheme_len(t[h + 1]))

find_next_word(t, pos) ==
    IF t = <<>> THEN pos
    ELSE LET r == get_next_word(t[pos.height + 1], pos.width)
         IN  IF r # None THEN Pos(pos.height, r[1]) ELSE NextWordDown(t, pos.height)

----------------------------------------------------------------------------
(* View: the screen offset *)

\* View::handle_offset_screen_snap; bar: the search or help bar is shown
handle_offset_screen_snap(cur, off, sz, len, bar) ==
    LET h1 == IF cur.height + 1 >= sz.height + off.height
              THEN Min(SatSub(len, sz.height) + 2, SatSub(cur.height, sz.height) + 2)
                   + (IF bar THEN 1 ELSE 0)
              ELSE IF cur.height < off.height
                   THEN SatSub(cur.height, 1)
                   ELSE off.height
        h2 == IF cur.height = 0 THEN 0 ELSE h1
        w1 == IF cur.width = 0 THEN 0 ELSE off.width
        w2 == IF cur.width >= sz.width + w1
              THEN SatSub(cur.width, sz.width) + 1
              ELSE IF cur.width < w1
                   THEN SatSub(cur.width, 1)
                   ELSE w1
    IN  Pos(h2, w2)

\* View::update_offset_single_move
update_offset_single_move(cur, off, sz) ==
    LET h1 == IF cur.height >= SatSub(sz.height + off.height, 1)
              THEN Min(off.height + 1, SatSub(cur.height, sz.height) + 2)
              ELSE off.height
        h2 == IF cur.height <= h1 THEN cur.height ELSE h1
        w1 == IF cur.width < off.width THEN cur.width ELSE off.width
        w2 == IF cur.width >= sz.width + w1 THEN w1 + 1 ELSE w1
    IN  Pos(h2, w2)

Directions == {"Up", "Down", "Left", "Right", "PageUp", "PageDown", "Home", "End"}

\* a View::move_cursor whose Left stops at column 0 and whose Right stops at
\* the end of the line
MoveTarget_no_wrap(t, cur, dir) ==
    LET len == Len(t)
        glen(h) == grapheme_len(t[h + 1])
    IN  CASE dir = "Down" ->
               LET h == Min(cur.height + 1, SatSub(len, 1))
               IN  [ok |-> TRUE, cur |-> Pos(h, Min(cur.width, glen(h))), snap |-> FALSE]
          [] dir = "Up" ->
               LET h == Max(SatSub(cur.height, 1), 0)
               IN  IF h >= len THEN Panic("Out of bounds error")
                   ELSE [ok |-> TRUE, cur |-> Pos(h, Min(cur.width, glen(h))),
                         snap |-> FALSE]
          [] dir = "Left" ->
               [ok |-> TRUE, cur |-> Pos(cur.height, SatSub(cur.width, 1)),
                snap |-> FALSE]
          [] dir = "Right" ->
               IF cur.height >= len THEN Panic("Out of bounds error")
               ELSE [ok |-> TRUE,
                     cur |-> Pos(cur.height, Min(cur.width + 1, glen(cur.height))),
                     snap |-> FALSE]
          [] dir = "PageDown" ->
               [ok |-> TRUE, cur |-> Pos(SatSub(len, 1), cur.width), snap |-> TRUE]
          [] dir = "PageUp" ->
               [ok |-> TRUE, cur |-> Pos(0, cur.width), snap |-> TRUE]
          [] dir = "End" ->
               IF cur.height >= len THEN Panic("index Error")
               ELSE [ok |-> TRUE, cur |-> Pos(cur.height, glen(cur.height)),
                     snap |-> TRUE]
          [] dir = "Home" ->
               [ok |-> TRUE, cur |-> Pos(cur.height, 0), snap |-> TRUE]

\* View::move_cursor on a non-empty buffer: the new cursor and whether the
\* offset is snapped; panics when the cursor's row is not in the buffer
MoveTarget(t, cur, dir) ==
    LET len == Len(t)
        glen(h) == grapheme_len(t[h + 1])
    IN  CASE dir = "Down" ->
               LET h == Min(cur.height + 1, SatSub(len, 1))
               IN  [ok |-> TRUE, cur |-> Pos(h, Min(cur.width, glen(h))), snap |-> FALSE]
          [] dir = "Up" ->
               LET h == Max(SatSub(cur.height, 1), 0)
               IN  IF h >= len THEN Panic("Out of bounds error")
                   ELSE [ok |-> TRUE, cur |-> Pos(h, Min(cur.width, glen(h))),
                         snap |-> FALSE]
          [] dir = "Left" ->
               IF cur.width = 0 /\ cur.height > 0
               THEN LET h == Max(SatSub(cur.height, 1), 0)
                    IN  IF h >= len THEN Panic("Out of bounds error")
                        ELSE [ok |-> TRUE, cur |-> Pos(h, glen(h)), snap |-> TRUE]
               ELSE [ok |-> TRUE, cur |-> Pos(cur.height, SatSub(cur.width, 1)),
                     snap |-> FALSE]
          [] dir = "Right" ->
               IF cur.height >= len THEN Panic("Out of bounds error")
               ELSE IF cur.width = glen(cur.height) /\ cur.height < SatSub(len, 1)
                    THEN [ok |-> TRUE, cur |-> Pos(cur.height + 1, 0), snap |-> TRUE]
                    ELSE [ok |-> TRUE,
                          cur |-> Pos(cur.height, Min(cur.width + 1, glen(cur.height))),
                          snap |-> FALSE]
          [] dir = "PageDown" ->
               [ok |-> TRUE, cur |-> Pos(SatSub(len, 1), cur.width), snap |-> TRUE]
          [] dir = "PageUp" ->
               [ok |-> TRUE, cur |-> Pos(0, cur.width), snap |-> TRUE]
          [] dir = "End" ->
               IF cur.height >= len THEN Panic("index Error")
               ELSE [ok |-> TRUE, cur |-> Pos(cur.height, glen(cur.height)),
                     snap |-> TRUE]
          [] dir = "Home" ->
               [ok |-> TRUE, cur |-> Pos(cur.height, 0), snap |-> TRUE]

\* View::move_cursor: the new cursor and offset
move_cursor(t, cur, off, sz, bar, dir) ==
    IF t = <<>> THEN [ok |-> TRUE, cur |-> Pos(0, 0), off |-> off]
    ELSE LET m == MoveTarget(t, cur, dir)
         IN  IF ~m.ok THEN m
             ELSE [ok |-> TRUE, cur |-> m.cur,
                   off |-> IF m.snap
                           THEN handle_offset_screen_snap(m.cur, off, sz, Len(t), bar)
                           ELSE update_offset_single_move(m.cur, off, sz)]

----------------------------------------------------------------------------
(* Inputs *)

Size(h, w) == [height |-> h, width |-> w]
Sizes == {Size(2, 3), Size(4, 6)}
InsertChars == {"a", "W"}
ClipTexts == {<<"a">>, <<NL, "a">>}
Digits == 0..2
B == [text |-> text, is_saved |-> is_saved]

WithinBounds(t) ==
    /\ Len(t) <= MaxLines
    /\ \A k \in 1..Len(t) : Len(t[k].string) <= MaxLineLen

\* a panic ends the session: the panic hook restores the terminal and the
\* process exits
Crash(msg, cmd) ==
    /\ mode' = "panic"
    /\ fatal' = msg
    /\ last' = cmd
    /\ UNCHANGED <<bufvars, viewvars, vimvars, subvars, should_quit, disk, first_load, loopvars>>

\* the variables no normal-mode editing command touches
EditFrame == UNCHANGED <<filename, vimvars, subvars, should_quit, mode, fatal,
                        disk, first_load, loopvars>>

----------------------------------------------------------------------------
(* Normal mode: View::handle_event *)

\* EditorCommand::Move
Move(dir) ==
    /\ mode = "normal"
    /\ LET r == move_cursor(text, cursor_position, screen_offset, size, render_help, dir)
       IN  IF r.ok
           THEN /\ cursor_position' = r.cur
                /\ screen_offset' = r.off
                /\ last' = "Move"
                /\ UNCHANGED <<text, is_saved, size, render_help>>
                /\ EditFrame
           ELSE Crash(r.msg, "Move")

\* EditorCommand::JumpWord: View::jump_word
JumpWord(dir) ==
    /\ mode = "normal"
    /\ dir \in {"Left", "Right"}
    /\ IF text # <<>> /\ cursor_position.height >= Len(text)
       THEN Crash("index out of bounds", "JumpWord")
       ELSE /\ cursor_position' = IF dir = "Right"
                                  THEN find_next_word(text, cursor_position)
                                  ELSE find_prev_word(text, cursor_position)
            /\ last' = "JumpWord"
            /\ UNCHANGED <<text, is_saved, screen_offset, size, render_help>>
            /\ EditFrame

\* EditorCommand::Resize: View::resize
Resize(sz) ==
    /\ mode = "normal"
    /\ size' = sz
    /\ screen_offset' = handle_offset_screen_snap(cursor_position, screen_offset, sz,
                                                  Len(text), render_help)
    /\ last' = "Resize"
    /\ UNCHANGED <<text, is_saved, cursor_position, render_help>>
    /\ EditFrame

\* EditorCommand::Insert: View::insert_char, then update_offset_single_move
Insert(c) ==
    /\ mode = "normal"
    /\ LET r == update_line_insert(B, cursor_position, c)
       IN  IF r.ok
           THEN /\ WithinBounds(r.text)
                /\ text' = r.text
                /\ is_saved' = FALSE
                /\ cursor_position' = r.pos
                /\ screen_offset' = update_offset_single_move(r.pos, screen_offset, size)
                /\ last' = "Insert"
                /\ UNCHANGED <<size, render_help>>
                /\ EditFrame
           ELSE Crash(r.msg, "Insert")

\* EditorCommand::Tab: View::insert_tab
Tab ==
    /\ mode = "normal"
    /\ LET r == insert_tab(B, cursor_position, 1)
       IN  IF r.ok
           THEN /\ WithinBounds(r.text)
                /\ text' = r.text
                /\ is_saved' = r.is_saved
                /\ cursor_position' = Pos(cursor_position.height,
                                          cursor_position.width + 4)
                /\ last' = "Tab"
                /\ UNCHANGED <<screen_offset, size, render_help>>
                /\ EditFrame
           ELSE Crash(r.msg, "Tab")

\* EditorCommand::Delete
Delete ==
    /\ mode = "normal"
    /\ LET cur == cursor_position
       IN  IF cur.width = 0
           THEN IF cur.height = 0
                THEN /\ last' = "Delete"
                     /\ UNCHANGED <<text, is_saved, viewvars>>
                     /\ EditFrame
                ELSE IF cur.height >= Len(text)
                THEN Crash("Out of bounds error", "Delete")
                ELSE IF text[cur.height + 1].string = <<>>
                THEN LET t1 == VecRemove(text, cur.height)
                         c1 == Pos(cur.height - 1, grapheme_len(t1[cur.height]))
                     IN  /\ text' = t1
                         /\ cursor_position' = c1
                         /\ screen_offset' = handle_offset_screen_snap(
                                c1, screen_offset, size, Len(t1), render_help)
                         /\ last' = "Delete"
                         /\ UNCHANGED <<is_saved, size, render_help>>
                         /\ EditFrame
                ELSE LET new_width == grapheme_len(text[cur.height])
                         r == join_line(B, cur.height)
                     IN  /\ WithinBounds(r.text)
                         /\ text' = r.text
                         /\ is_saved' = r.is_saved
                         /\ cursor_position' = Pos(cur.height - 1, new_width)
                         /\ last' = "Delete"
                         /\ UNCHANGED <<screen_offset, size, render_help>>
                         /\ EditFrame
           ELSE LET r == update_line_delete(B, cur)   \* View::delete_char
                IN  IF r.ok
                    THEN /\ text' = r.text
                         /\ is_saved' = r.is_saved
                         /\ cursor_position' = Pos(cur.height, SatSub(cur.width, r.removed))
                         /\ last' = "Delete"
                         /\ UNCHANGED <<screen_offset, size, render_help>>
                         /\ EditFrame
                    ELSE Crash(r.msg, "Delete")

\* EditorCommand::NewLine
NewLine ==
    /\ mode = "normal"
    /\ LET cur == cursor_position
       IN  IF text # <<>> /\ cur.height >= Len(text)
           THEN Crash("Out of bounds error", "NewLine")
           ELSE LET glen == IF text # <<>> THEN grapheme_len(text[cur.height + 1]) ELSE 0
                    r == IF cur.width = glen THEN new_line(B, cur.height)
                                             ELSE split_line(B, cur)
                IN  IF r.ok
                    THEN LET h == cur.height + 1
                             c1 == Pos(h, IF is_tab(r.text, Pos(h, 4)) THEN 4 ELSE 0)
                         IN  /\ WithinBounds(r.text)
                             /\ text' = r.text
                             /\ is_saved' = r.is_saved
                             /\ cursor_position' = c1
                             /\ screen_offset' = handle_offset_screen_snap(
                                    c1, screen_offset, size, Len(r.text), render_help)
                             /\ last' = "NewLine"
                             /\ UNCHANGED <<size, render_help>>
                             /\ EditFrame
                    ELSE Crash(r.msg, "NewLine")

\* EditorCommand::Paste with the clipboard holding paste_text
Paste(paste_text) ==
    /\ mode = "normal"
    /\ LET r == add_text_from_clipboard(B, paste_text, cursor_position)
       IN  IF r.ok
           THEN /\ WithinBounds(r.text)
                /\ text' = r.text
                /\ is_saved' = r.is_saved
                /\ cursor_position' = r.pos
                /\ last' = "Paste"
                /\ UNCHANGED <<screen_offset, size, render_help>>
                /\ EditFrame
           ELSE Crash(r.msg, "Paste")

\* EditorCommand::Paste when the clipboard cannot be read: unwrap panics
PasteFails ==
    /\ mode = "normal"
    /\ Crash("called Result::unwrap() on an Err value", "Paste")

\* EditorCommand::Help
Help ==
    /\ mode = "normal"
    /\ render_help' = TRUE
    /\ last' = "Help"
    /\ UNCHANGED <<text, is_saved, cursor_position, screen_offset, size>>
    /\ EditFrame

\* EditorCommand::JumpLine: View::jump_cursor starts its own input loop
JumpLine ==
    /\ mode = "normal"
    /\ mode' = "jump"
    /\ line' = 0
    /\ last' = "JumpLineStart"
    /\ UNCHANGED <<bufvars, viewvars, vimvars, filename_buffer, caller, should_quit,
                   fatal, disk, first_load, loopvars>>

----------------------------------------------------------------------------
(* Jump-to-line: the loop of View::jump_cursor *)

JumpFrame == UNCHANGED <<bufvars, vimvars, filename_buffer, caller, should_quit,
                        fatal, disk, first_load, loopvars>>

\* KeyCode::Char(digit)
JumpDigit(d) ==
    /\ mode = "jump"
    /\ line * 10 + d <= MaxJump
    /\ line' = line * 10 + d
    /\ last' = "JumpDigit"
    /\ UNCHANGED <<viewvars, mode>>
    /\ JumpFrame

\* KeyCode::Backspace
JumpBackspace ==
    /\ mode = "jump"
    /\ line' = IF line > 9 THEN line \div 10 ELSE 0
    /\ last' = "JumpBackspace"
    /\ UNCHANGED <<viewvars, mode>>
    /\ JumpFrame

\* KeyCode::Enter: go to the typed line and leave the loop
JumpEnter ==
    /\ mode = "jump"
    /\ LET c1 == IF line < Len(text)
                 THEN [ok |-> TRUE, cur |-> Pos(SatSub(line, 1), cursor_position.width),
                       off |-> screen_offset]
                 ELSE move_cursor(text, cursor_position, screen_offset, size,
                                  render_help, "PageDown")
           o1 == IF \/ c1.cur.height > size.height + c1.off.height
                    \/ c1.cur.height < c1.off.height
                 THEN handle_offset_screen_snap(c1.cur, c1.off, size, Len(text),
                                                render_help)
                 ELSE c1.off
       IN  /\ cursor_position' = c1.cur
           /\ screen_offset' = o1
    /\ mode' = "normal"
    /\ last' = "JumpLine"
    /\ UNCHANGED <<size, render_help, line>>
    /\ JumpFrame

\* KeyCode::Esc: leave the loop
JumpEsc ==
    /\ mode = "jump"
    /\ mode' = "normal"
    /\ last' = "JumpLine"
    /\ UNCHANGED <<viewvars, line>>
    /\ JumpFrame

\* Event::Resize: skipped like every event that is not a key
JumpResize(sz) ==
    /\ mode = "jump"
    /\ last' = "JumpResize"
    /\ UNCHANGED <<viewvars, line, mode>>
    /\ JumpFrame

\* any other event is skipped
JumpOther ==
    /\ mode = "jump"
    /\ last' = "JumpOther"
    /\ UNCHANGED <<viewvars, line, mode>>
    /\ JumpFrame

----------------------------------------------------------------------------
(* Saving *)

NameChars == {"f"}
IOOutcomes == {"ok", "open fails", "write fails"}

\* Buffer::save under the environment's outcome io: the panic it ends in, or
\* the file it leaves.  The file is opened before anything is written, and an
\* empty name cannot be opened.
save(t, fn, file, io) ==
    IF fn = <<>>
    THEN [ok |-> FALSE, msg |-> "Trying to save without filename being set",
          disk |-> file]
    ELSE IF io = "open fails" \/ fn[1] = <<>>
    THEN [ok |-> FALSE, msg |-> "Error opening file", disk |-> file]
    ELSE IF io = "write fails" /\ t # <<>>
    THEN [ok |-> FALSE, msg |-> "Error on write", disk |-> WriteOver(file, <<>>)]
    ELSE [ok |-> TRUE, msg |-> "", disk |-> WriteOver(file, SaveBytes(t))]

\* the next state of a step that calls Buffer::save and then goes on in mode m
\* (with should_quit set to q)
ThenSave(fn, io, m, q, cmd) ==
    LET r == save(text, fn, disk, io)
    IN  IF r.ok
        THEN /\ disk' = r.disk
             /\ is_saved' = TRUE
             /\ mode' = m
             /\ should_quit' = q
             /\ fatal' = fatal
             /\ last' = cmd
        ELSE /\ disk' = r.disk
             /\ mode' = "panic"
             /\ fatal' = r.msg
             /\ last' = cmd
             /\ UNCHANGED <<is_saved, should_quit>>

\* EditorCommand::Save: asks for a name first when the buffer has none
Save(io) ==
    /\ mode = "normal"
    /\ IF filename = <<>>
       THEN /\ mode' = "filename"
            /\ filename_buffer' = <<>>
            /\ caller' = "save"
            /\ last' = "SaveAsk"
            /\ UNCHANGED <<bufvars, should_quit, fatal, disk>>
       ELSE /\ ThenSave(filename, io, "normal", should_quit, "Save")
            /\ UNCHANGED <<text, filename, filename_buffer, caller>>
    /\ UNCHANGED <<viewvars, vimvars, line, first_load, loopvars>>

----------------------------------------------------------------------------
(* Filename entry: the loop of View::get_file_name *)

NameFrame == UNCHANGED <<viewvars, vimvars, line, caller, first_load, loopvars>>

\* KeyCode::Char
NameChar(c) ==
    /\ mode = "filename"
    /\ Len(filename_buffer) < MaxName
    /\ filename_buffer' = Append(filename_buffer, c)
    /\ last' = "NameChar"
    /\ UNCHANGED <<bufvars, should_quit, mode, fatal, disk>>
    /\ NameFrame

\* KeyCode::Backspace
NameBackspace ==
    /\ mode = "filename"
    /\ filename_buffer' = SubSeq(filename_buffer, 1, Len(filename_buffer) - 1)
    /\ last' = "NameBackspace"
    /\ UNCHANGED <<bufvars, should_quit, mode, fatal, disk>>
    /\ NameFrame

\* Event::Resize: skipped like every event that is not a key
NameResize(sz) ==
    /\ mode = "filename"
    /\ last' = "NameResize"
    /\ UNCHANGED <<bufvars, should_quit, mode, fatal, disk, filename_buffer>>
    /\ NameFrame

\* any other event
NameOther ==
    /\ mode = "filename"
    /\ last' = "NameOther"
    /\ UNCHANGED <<bufvars, should_quit, mode, fatal, disk, filename_buffer>>
    /\ NameFrame

\* KeyCode::Enter: the buffer takes the name and the caller saves; the quit
\* path then sets should_quit
NameEnter(io) ==
    /\ mode = "filename"
    /\ filename' = <<filename_buffer>>
    /\ IF caller = "save"
       THEN ThenSave(<<filename_buffer>>, io, "normal", should_quit, "NameSave")
       ELSE ThenSave(<<filename_buffer>>, io, "done", TRUE, "NameQuitSave")
    /\ UNCHANGED <<text, filename_buffer>>
    /\ NameFrame

----------------------------------------------------------------------------
(* Quit: Editor::evaluate_event and Editor::exit_without_saving *)

\* a Quit that asks for confirmation on every non-empty buffer
Quit_always_prompts ==
    /\ mode = "normal"
    /\ IF text # <<>>
       THEN /\ mode' = "prompt"
            /\ UNCHANGED should_quit
       ELSE /\ mode' = "done"
            /\ should_quit' = TRUE
    /\ last' = "Quit"
    /\ UNCHANGED <<bufvars, viewvars, vimvars, subvars, fatal, disk, first_load, loopvars>>

\* EditorCommand::Quit
Quit ==
    /\ mode = "normal"
    /\ IF ~is_saved /\ text # <<>>
       THEN /\ mode' = "prompt"
            /\ UNCHANGED should_quit
       ELSE /\ mode' = "done"
            /\ should_quit' = TRUE
    /\ last' = "Quit"
    /\ UNCHANGED <<bufvars, viewvars, vimvars, subvars, fatal, disk, first_load, loopvars>>

PromptKeys == {"Ctrl-y", "Ctrl-n", "other key", "resize"}

\* exit_without_saving with a default arm that returns true: any key other
\* than Ctrl-n leaves the prompt and quits
exit_without_saving_default_exits(key) ==
    CASE key = "Ctrl-n" -> "false"
      [] OTHER -> "true"

\* what the loop of exit_without_saving does on an event: return true, return
\* false, or read the next event
exit_without_saving(key) ==
    CASE key = "Ctrl-y" -> "true"
      [] key = "Ctrl-n" -> "false"
      [] OTHER -> "loop"

\* one event read by the confirmation prompt
Prompt(key, io) ==
    /\ mode = "prompt"
    /\ LET exit == exit_without_saving(key)
       IN  CASE exit = "true" ->
                  /\ mode' = "done"
                  /\ should_quit' = TRUE
                  /\ last' = key
                  /\ UNCHANGED <<bufvars, fatal, disk, filename_buffer, caller>>
             [] exit = "false" ->
                  IF filename = <<>>
                  THEN /\ mode' = "filename"
                       /\ filename_buffer' = <<>>
                       /\ caller' = "quit"
                       /\ last' = key
                       /\ UNCHANGED <<bufvars, should_quit, fatal, disk>>
                  ELSE /\ ThenSave(filename, io, "done", TRUE, key)
                       /\ UNCHANGED <<text, filename, filename_buffer, caller>>
             [] OTHER ->
                  /\ last' = key
                  /\ UNCHANGED <<bufvars, should_quit, mode, fatal, disk,
                                 filename_buffer, caller>>
    /\ UNCHANGED <<viewvars, vimvars, line, first_load, loopvars>>

----------------------------------------------------------------------------
(* Vim mode: VimMode::run and VimMode::queue_colon *)

ColonChars == {"w", "q", "!", "x"}

\* ColonQueueActions::try_from(char)
ColonAction(c) ==
    CASE c = "w" -> Some("Write")
      [] c = "q" -> Some("Quit")
      [] c = "!" -> Some("Override")
      [] OTHER -> None

\* VimMode::map_string_to_queue_vec: None when a character maps to no action
map_string_to_queue_vec(q) ==
    IF \E k \in 1..Len(q) : ColonAction(q[k]) = None THEN None
    ELSE Some([k \in 1..Len(q) |-> ColonAction(q[k])[1]])

\* eval_colon_queue without the is_saved test in its Quit arm
eval_colon_queue_quit_unchecked(q, saved) ==
    CASE Len(q) = 1 /\ q[1] = "Write" ->
              [save |-> TRUE, state |-> "ContinueVim"]
      [] Len(q) = 1 /\ q[1] = "Quit" ->
              [save |-> FALSE, state |-> "ExitSession"]
      [] Len(q) = 1 /\ q[1] = "Override" ->
              [save |-> FALSE, state |-> "ContinueVimPersistError"]
      [] Len(q) = 2 /\ q = <<"Write", "Quit">> ->
              [save |-> TRUE, state |-> "ExitSession"]
      [] Len(q) = 2 /\ q = <<"Quit", "Override">> ->
              [save |-> FALSE, state |-> "ExitSession"]
      [] OTHER -> [save |-> FALSE, state |-> "ContinueVim"]

\* VimMode::eval_colon_queue on the mapped queue: whether Buffer::save is
\* called, and the ContinueState returned when save returns
eval_colon_queue(q, saved) ==
    CASE Len(q) = 1 /\ q[1] = "Write" ->
              [save |-> TRUE, state |-> "ContinueVim"]
      [] Len(q) = 1 /\ q[1] = "Quit" ->
              IF ~saved THEN [save |-> FALSE, state |-> "ContinueVimPersistError"]
              ELSE [save |-> FALSE, state |-> "ExitSession"]
      [] Len(q) = 1 /\ q[1] = "Override" ->
              [save |-> FALSE, state |-> "ContinueVimPersistError"]
      [] Len(q) = 2 /\ q = <<"Write", "Quit">> ->
              [save |-> TRUE, state |-> "ExitSession"]
      [] Len(q) = 2 /\ q = <<"Quit", "Override">> ->
              [save |-> FALSE, state |-> "ExitSession"]
      [] OTHER -> [save |-> FALSE, state |-> "ContinueVim"]

\* the name a colon command is recorded under in `last`
ColonName(q) ==
    CASE q = <<"w">> -> ":w"
      [] q = <<"q">> -> ":q"
      [] q = <<"w", "q">> -> ":wq"
      [] q = <<"q", "!">> -> ":q!"
      [] OTHER -> ":?"

VimFrame == UNCHANGED <<filename, cursor_position, screen_offset, size, render_help,
                       subvars, first_load, loopvars>>

\* EditorCommand::VimMode: VimMode::new takes copies of cursor, offset and size
EnterVim ==
    /\ mode = "normal"
    /\ mode' = "vim"
    /\ vim_cursor' = cursor_position
    /\ vim_max_width' = <<>>
    /\ vim_offset' = screen_offset
    /\ vim_size' = size
    /\ queue' = <<>>
    /\ last' = "VimMode"
    /\ UNCHANGED <<text, is_saved, should_quit, fatal, disk>>
    /\ VimFrame

\* VimModeCommands::Resize
VimResize(sz) ==
    /\ mode = "vim"
    /\ vim_size' = sz
    /\ last' = "VimResize"
    /\ UNCHANGED <<text, is_saved, should_quit, mode, fatal, disk, vim_cursor, vim_max_width,
                   vim_offset, queue>>
    /\ VimFrame

\* hand_back_state that hands back cursor and offset and leaves the caller's
\* size as it was
hand_back_state_keeps_size(vc, vo, vs, sz) ==
    [pos |-> vc, offset |-> vo, size |-> sz]

\* VimMode::hand_back_state: the caller's cursor, offset and size after it;
\* vc, vo, vs are Vim mode's own, sz is the caller's size
hand_back_state(vc, vo, vs, sz) ==
    [pos |-> vc, offset |-> vo, size |-> IF sz # vs THEN vs ELSE sz]

\* VimModeCommands::Exit: VimMode::hand_back_state, run returns true
VimExit ==
    /\ mode = "vim"
    /\ mode' = "normal"
    /\ last' = "VimExit"
    /\ LET r == hand_back_state(vim_cursor, vim_offset, vim_size, size)
       IN  /\ cursor_position' = r.pos
           /\ screen_offset' = r.offset
           /\ size' = r.size
    /\ UNCHANGED <<bufvars, render_help, should_quit, fatal, disk, vimvars, subvars,
                   first_load, loopvars>>

\* VimModeCommands::Paste: VimMode::add_to_clipboard with the clipboard
\* holding paste_text
VimPaste(paste_text) ==
    /\ mode = "vim"
    /\ LET r == add_text_from_clipboard(B, paste_text, vim_cursor)
       IN  IF r.ok
           THEN /\ WithinBounds(r.text)
                /\ text' = r.text
                /\ is_saved' = r.is_saved
                /\ vim_cursor' = r.pos
                /\ vim_max_width' = <<>>
                /\ last' = "VimPaste"
                /\ UNCHANGED <<mode, fatal>>
           ELSE /\ mode' = "panic"
                /\ fatal' = r.msg
                /\ last' = "VimPaste"
                /\ UNCHANGED <<text, is_saved, vim_cursor, vim_max_width>>
    /\ UNCHANGED <<should_quit, disk, vim_offset, vim_size, queue>>
    /\ VimFrame

\* VimModeCommands::Paste when the clipboard cannot be read: nothing happens
VimPasteFails ==
    /\ mode = "vim"
    /\ last' = "VimPasteFails"
    /\ UNCHANGED <<text, is_saved, should_quit, mode, fatal, disk, vimvars>>
    /\ VimFrame

----------------------------------------------------------------------------
(* Vim mode: cursor movement through Direction::move_cursor *)

\* a Position of Vim mode: row, column and the remembered column
VimPos(h, w, m) == [height |-> h, width |-> w, max_width |-> m]

\* Position::resolve_width after a vertical move: the column goes to the
\* remembered column, or stays when none is remembered, clamped to the
\* target line's length; the unclamped column is remembered
resolve_width(p, max) ==
    LET want == IF p.max_width = None THEN p.width ELSE p.max_width[1]
    IN  VimPos(p.height, Min(want, max), Some(want))

\* Position::up, Position::down: the row moves, clamped to the buffer
Position_up(p, delta) == [p EXCEPT !.height = SatSub(p.height, delta)]
Position_down(p, delta, max) == [p EXCEPT !.height = Min(p.height + delta, max)]

\* Position::left, right, snap_left, snap_right: horizontal moves forget the
\* remembered column
Position_left(p, delta) == VimPos(p.height, SatSub(p.width, delta), None)
Position_right(p, delta, max) == VimPos(p.height, Min(p.width + delta, max), None)
Position_snap_left(p) == VimPos(p.height, 0, None)
Position_snap_right(p, max) == VimPos(p.height, max, None)

\* Position::page_up, Position::page_down: the row only
Position_page_up(p) == [p EXCEPT !.height = 0]
Position_page_down(p, max) == [p EXCEPT !.height = max]

\* Direction::move_cursor: indexing buffer.text with a row outside the buffer
\* panics
Direction_move_cursor(t, p, dir) ==
    LET len == Len(t)
        glen(h) == grapheme_len(t[h + 1])
        oob == Panic("index out of bounds")
        Done(q) == [ok |-> TRUE, pos |-> q]
    IN  CASE dir = "Down" ->
               LET q == Position_down(p, 1, SatSub(len, 1))
               IN  IF q.height >= len THEN oob
                   ELSE Done(resolve_width(q, glen(q.height)))
          [] dir = "Up" ->
               LET q == Position_up(p, 1)
               IN  IF q.height >= len THEN oob
                   ELSE Done(resolve_width(q, glen(q.height)))
          [] dir = "Left" ->
               IF p.width = 0 /\ p.height # 0
               THEN LET q == Position_up(p, 1)
                    IN  IF q.height >= len THEN oob
                        ELSE Done(Position_snap_right(q, glen(q.height)))
               ELSE Done(Position_left(p, 1))
          [] dir = "Right" ->
               IF p.height >= len THEN oob
               ELSE LET text_height == SatSub(len, 1)
                    IN  IF p.width = glen(p.height) /\ p.height # text_height
                        THEN Done(Position_snap_left(Position_down(p, 1, text_height)))
                        ELSE Done(Position_right(p, 1, glen(p.height)))
          [] dir = "PageDown" -> Done(Position_page_down(p, SatSub(len, 1)))
          [] dir = "PageUp" -> Done(Position_page_up(p))
          [] dir = "End" ->
               IF p.height >= len THEN oob
               ELSE Done(Position_snap_right(p, glen(p.height)))
          [] dir = "Home" -> Done(Position_snap_left(p))

\* Position::max_displacement_from_view: 0 when the cursor is inside the
\* viewport less the reserved margin, 1 when it is one step outside, more
\* for a larger jump
max_displacement_from_view(cur, off, sz, margin) ==
    LET rows == SatSub(sz.height, margin)
        dh == IF cur.height < off.height THEN off.height - cur.height
              ELSE IF cur.height >= off.height + rows
                   THEN cur.height + 1 - (off.height + rows)
                   ELSE 0
        dw == IF cur.width < off.width THEN off.width - cur.width
              ELSE IF cur.width >= off.width + sz.width
                   THEN cur.width + 1 - (off.width + sz.width)
                   ELSE 0
    IN  Max(dh, dw)

\* VimMode::resolve_displacement: the offset after a move
resolve_displacement(cur, off, sz, len) ==
    LET dis == max_displacement_from_view(cur, off, sz, 2)
    IN  IF dis = 1 THEN update_offset_single_move(cur, off, sz)
        ELSE IF dis > 1 THEN handle_offset_screen_snap(cur, off, sz, len, FALSE)
        ELSE off

\* VimMode::move_and_resolve
move_and_resolve(t, cur, m, off, sz, dir) ==
    LET r == Direction_move_cursor(t, VimPos(cur.height, cur.width, m), dir)
    IN  IF ~r.ok THEN r
        ELSE LET c == Pos(r.pos.height, r.pos.width)
             IN  [ok |-> TRUE, cur |-> c, max_width |-> r.pos.max_width,
                  off |-> resolve_displacement(c, off, sz, Len(t))]

\* VimMode::move_cursor: on an empty buffer the cursor goes to the origin
VimMode_move_cursor(t, cur, m, off, sz, dir) ==
    IF t = <<>>
    THEN [ok |-> TRUE, cur |-> Pos(0, 0), max_width |-> None, off |-> off]
    ELSE move_and_resolve(t, cur, m, off, sz, dir)

\* a Vim-mode step that moves the cursor to what r holds
VimMoved(r, cmd) ==
    /\ IF r.ok
       THEN /\ vim_cursor' = r.cur
            /\ vim_max_width' = r.max_width
            /\ vim_offset' = r.off
            /\ UNCHANGED <<mode, fatal>>
       ELSE /\ mode' = "panic"
            /\ fatal' = r.msg
            /\ UNCHANGED <<vim_cursor, vim_max_width, vim_offset>>
    /\ last' = cmd
    /\ UNCHANGED <<text, is_saved, should_quit, disk, vim_size, queue>>
    /\ VimFrame

VimMoveDirections == {"Up", "Down", "Left", "Right", "Home", "End"}

\* VimModeCommands::Move(dir) for h, j, k, l, 0 and $
VimMove(dir) ==
    /\ mode = "vim"
    /\ dir \in VimMoveDirections
    /\ VimMoved(VimMode_move_cursor(text, vim_cursor, vim_max_width, vim_offset,
                                    vim_size, dir), "VimMove")

\* QueueInitCommand::PageUp then g (dir = PageUp), QueueInitCommand::PageDown
\* then G (dir = PageDown): queue_page_up, queue_page_down
VimPage(dir) ==
    /\ mode = "vim"
    /\ dir \in {"PageUp", "PageDown"}
    /\ VimMoved(move_and_resolve(text, vim_cursor, vim_max_width, vim_offset,
                                 vim_size, dir), "VimPage")

\* the Vim-mode step that moves the cursor in direction dir
VimStep(dir) == VimMove(dir) \/ VimPage(dir)

----------------------------------------------------------------------------
(* Vim mode: the colon queue *)

\* VimModeCommands::ComplexCommand(QueueInitCommand::Colon): queue_colon starts
VimColon ==
    /\ mode = "vim"
    /\ mode' = "colon"
    /\ queue' = <<>>
    /\ last' = "VimColon"
    /\ UNCHANGED <<text, is_saved, should_quit, fatal, disk, vim_cursor, vim_max_width, vim_offset,
                   vim_size>>
    /\ VimFrame

\* VimColonQueue::New
ColonNew(c) ==
    /\ mode = "colon"
    /\ Len(queue) < MaxQueue
    /\ queue' = Append(queue, c)
    /\ last' = "ColonNew"
    /\ UNCHANGED <<text, is_saved, should_quit, mode, fatal, disk, vim_cursor, vim_max_width,
                   vim_offset, vim_size>>
    /\ VimFrame

\* VimColonQueue::Backspace: leaves the colon loop when the queue is empty
ColonBackspace ==
    /\ mode = "colon"
    /\ IF queue = <<>>
       THEN mode' = "vim" /\ queue' = queue
       ELSE mode' = mode /\ queue' = SubSeq(queue, 1, Len(queue) - 1)
    /\ last' = "ColonBackspace"
    /\ UNCHANGED <<text, is_saved, should_quit, fatal, disk, vim_cursor, vim_max_width, vim_offset,
                   vim_size>>
    /\ VimFrame

\* VimColonQueue::Resize
ColonResize(sz) ==
    /\ mode = "colon"
    /\ vim_size' = sz
    /\ last' = "ColonResize"
    /\ UNCHANGED <<text, is_saved, should_quit, mode, fatal, disk, vim_cursor, vim_max_width,
                   vim_offset, queue>>
    /\ VimFrame

\* VimColonQueue::Other
ColonOther ==
    /\ mode = "colon"
    /\ last' = "ColonOther"
    /\ UNCHANGED <<text, is_saved, should_quit, mode, fatal, disk, vimvars>>
    /\ VimFrame

\* VimColonQueue::Execute: an unmappable queue is cleared and the loop goes
\* on; otherwise eval_colon_queue runs and queue_colon returns its state to
\* run, which ends the session on ExitSession and reads on otherwise
ColonExecute(io) ==
    /\ mode = "colon"
    /\ LET mapped == map_string_to_queue_vec(queue)
       IN  IF mapped = None
           THEN /\ queue' = <<>>
                /\ last' = ":error"
                /\ UNCHANGED <<is_saved, should_quit, mode, fatal, disk>>
           ELSE LET e == eval_colon_queue(mapped[1], is_saved)
                    m == IF e.state = "ExitSession" THEN "done" ELSE "vim"
                    q == IF e.state = "ExitSession" THEN TRUE ELSE should_quit
                IN  /\ queue' = <<>>
                    /\ IF e.save
                       THEN ThenSave(filename, io, m, q, ColonName(queue))
                       ELSE /\ mode' = m
                            /\ should_quit' = q
                            /\ last' = ColonName(queue)
                            /\ UNCHANGED <<is_saved, fatal, disk>>
    /\ UNCHANGED <<text, vim_cursor, vim_max_width, vim_offset, vim_size>>
    /\ VimFrame

----------------------------------------------------------------------------
(* Search: Buffer::search, Search and the loop of View::handle_search *)

\* str::split(pattern): the lengths of the pieces between the matches of pat,
\* found left to right without overlap; i is the next byte, cur the length of
\* the piece being read
RECURSIVE SplitLens(_, _, _, _)
SplitLens(raw, pat, i, cur) ==
    IF i > Len(raw) THEN <<cur>>
    ELSE IF i + Len(pat) - 1 <= Len(raw) /\ SubSeq(raw, i, i + Len(pat) - 1) = pat
    THEN <<cur>> \o SplitLens(raw, pat, i + Len(pat), 0)
    ELSE SplitLens(raw, pat, i + 1, cur + 1)

\* Buffer::find_search_widths: the running length before every piece but the
\* first, the last one popped
find_search_widths(raw, search_str) ==
    LET lens == SplitLens(raw, search_str, 1, 0)
        running[k \in 1..Len(lens)] ==
            IF k = 1 THEN lens[1]
            ELSE running[k - 1] + Len(search_str) + lens[k]
    IN  [k \in 1..(Len(lens) - 1) |-> running[k]]

\* Buffer::search: the position of every hit, by row and then by byte offset
RECURSIVE search(_, _, _)
search(t, search_str, i) ==
    IF i > Len(t) THEN <<>>
    ELSE LET widths == IF Len(SplitLens(t[i].raw_string, search_str, 1, 0)) > 1
                       THEN find_search_widths(t[i].raw_string, search_str)
                       ELSE <<>>
         IN  [k \in 1..Len(widths) |-> Pos(i - 1, widths[k])]
             \o search(t, search_str, i + 1)

\* the loop of Search::find_relative_start
RECURSIVE RelativeStartLoop(_, _, _, _)
RelativeStartLoop(ps, h, l, r) ==
    LET m == (r - l) \div 2 + l
    IN  IF ~(l < r) THEN None
        ELSE IF \/ ps[m + 1].height = h
                \/ ps[m].height < h /\ ps[m + 2].height > h
        THEN Some(ps[m + 1].height)
        ELSE IF ps[m + 1].height > h
        THEN RelativeStartLoop(ps, h, l, m - 1)
        ELSE RelativeStartLoop(ps, h, m + 1, r)

\* Search::find_relative_start: r >= l holds for every result list, so the
\* loop is never entered
find_relative_start(stk, curr_height) ==
    IF stk = <<>> THEN None
    ELSE LET ps == stk[Len(stk)]
             l == 0
             r == SatSub(Len(ps), 1)
         IN  IF r >= l THEN None
             ELSE RelativeStartLoop(ps, curr_height, l, r)

\* Search::set_line_indicies: the rows of the current results; the expect on
\* the top of the stack fails when the stack is empty
set_line_indicies(stk) ==
    IF stk = <<>> THEN Panic("Stack is empty")
    ELSE [ok |-> TRUE, msg |-> "",
          rows |-> {stk[Len(stk)][k].height : k \in 1..Len(stk[Len(stk)])}]

\* the Search the loop works on
Srch == [string |-> string, stack |-> stack, search_index |-> search_index,
         line_indicies |-> line_indicies]

\* (KeyCode::Char(char), _): push the character and the results of the new
\* query
search_insert(s, t, prev_height, c) ==
    LET str == Append(s.string, c)
        stk == Append(s.stack, search(t, Encode(str), 1))
        ind == find_relative_start(stk, prev_height)
        li  == set_line_indicies(stk)
    IN  [ok |-> li.ok, msg |-> li.msg, string |-> str, stack |-> stk,
         search_index |-> IF ind # None THEN ind[1] ELSE 0,
         line_indicies |-> IF li.ok THEN li.rows ELSE s.line_indicies]

\* Backspace that pops the query and leaves the result stack as it is
search_backspace_keeps_stack(s, prev_height) ==
    IF s.string = <<>>
    THEN [ok |-> TRUE, msg |-> "", string |-> s.string, stack |-> s.stack,
          search_index |-> s.search_index, line_indicies |-> s.line_indicies]
    ELSE LET str == SubSeq(s.string, 1, Len(s.string) - 1)
             stk == s.stack
             ind == find_relative_start(stk, prev_height)
             li  == set_line_indicies(stk)
         IN  [ok |-> li.ok, msg |-> li.msg, string |-> str, stack |-> stk,
              search_index |-> IF ind # None THEN ind[1] ELSE 0,
              line_indicies |-> IF li.ok THEN li.rows ELSE {}]

\* (KeyCode::Backspace, _): pop the query and the stack, then set the line
\* set from the new top
search_backspace(s, prev_height) ==
    IF s.string = <<>>
    THEN [ok |-> TRUE, msg |-> "", string |-> s.string, stack |-> s.stack,
          search_index |-> s.search_index, line_indicies |-> s.line_indicies]
    ELSE LET str == SubSeq(s.string, 1, Len(s.string) - 1)
             stk == SubSeq(s.stack, 1, Len(s.stack) - 1)
             ind == find_relative_start(stk, prev_height)
             li  == set_line_indicies(stk)
         IN  [ok |-> li.ok, msg |-> li.msg, string |-> str, stack |-> stk,
              search_index |-> IF ind # None THEN ind[1] ELSE 0,
              line_indicies |-> IF li.ok THEN li.rows ELSE s.line_indicies]

\* a Ctrl-n that goes on past the last hit
search_next_no_wrap(s) ==
    IF s.stack = <<>> THEN s.search_index ELSE s.search_index + 1

\* (KeyCode::Char('n'), CONTROL): the next hit, wrapping to the first
search_next(s) ==
    IF s.stack = <<>> THEN s.search_index
    ELSE IF SatSub(Len(s.stack[Len(s.stack)]), 1) > s.search_index
         THEN s.search_index + 1
         ELSE 0

\* (KeyCode::Char('p'), CONTROL): the previous hit, wrapping to the last
search_previous(s) ==
    IF s.stack = <<>> THEN s.search_index
    ELSE IF s.search_index > 0
         THEN SatSub(s.search_index, 1)
         ELSE SatSub(Len(s.stack[Len(s.stack)]), 1)

\* revert_screen_state that restores the cursor and leaves the offset
revert_screen_state_cursor_only(self) ==
    [cursor_position |-> self.previous_position,
     screen_offset |-> self.screen_offset]

\* View::revert_screen_state on the view's cursor, offset and saved pair
revert_screen_state(self) ==
    [cursor_position |-> self.previous_position,
     screen_offset |-> self.previous_offset]

\* the view as revert_screen_state reads it, with cursor cur and offset off
ViewOf(cur, off) ==
    [cursor_position |-> cur, screen_offset |-> off,
     previous_position |-> previous_position, previous_offset |-> previous_offset]

\* the end of one turn of the loop of handle_search, after the event was
\* handled: with no results the screen state is reverted, otherwise the
\* cursor goes to the current hit and the offset follows it
SearchTail(stk, ind, cur, off, sz) ==
    IF stk = <<>> \/ stk[Len(stk)] = <<>>
    THEN LET v == revert_screen_state(ViewOf(cur, off))
         IN  [ok |-> TRUE, msg |-> "", cur |-> v.cursor_position,
              off |-> v.screen_offset]
    ELSE IF ind >= Len(stk[Len(stk)])
    THEN [ok |-> FALSE, msg |-> "Out of bounds", cur |-> cur, off |-> off]
    ELSE LET c1 == stk[Len(stk)][ind + 1]
         IN  [ok |-> TRUE, msg |-> "", cur |-> c1,
              off |-> IF \/ c1.height > off.height + SatSub(sz.height, 2)
                         \/ c1.height < off.height
                      THEN handle_offset_screen_snap(c1, off, sz, Len(text),
                                                     render_search \/ render_help)
                      ELSE off]

QueryChars == {"a", "x"}
KeyKinds == {"Press", "Release", "Repeat"}

SearchFrame == UNCHANGED <<bufvars, vimvars, subvars, hlvars, rendered, should_quit, disk,
                          first_load, previous_position, previous_offset>>

\* EditorCommand::Search: handle_search saves cursor and offset, clears the
\* query and starts its own input loop
Search ==
    /\ mode = "normal"
    /\ mode' = "search"
    /\ render_help' = FALSE
    /\ render_search' = TRUE
    /\ previous_position' = cursor_position
    /\ previous_offset' = screen_offset
    /\ string' = <<>>
    /\ search_index' = 0
    /\ last' = "Search"
    /\ UNCHANGED <<bufvars, vimvars, subvars, hlvars, rendered, should_quit, disk, first_load,
                   cursor_position, screen_offset, size, stack, line_indicies, fatal>>

\* one turn of the loop that neither leaves it nor resizes: the Search after
\* the event (s1), then the end of the turn
SearchTurn(s1, cmd) ==
    LET tl == SearchTail(s1.stack, s1.search_index, cursor_position, screen_offset,
                         size)
    IN  /\ string' = s1.string
        /\ stack' = s1.stack
        /\ search_index' = s1.search_index
        /\ line_indicies' = s1.line_indicies
        /\ last' = cmd
        /\ IF ~s1.ok
           THEN /\ mode' = "panic"
                /\ fatal' = s1.msg
                /\ UNCHANGED <<cursor_position, screen_offset>>
           ELSE IF ~tl.ok
           THEN /\ mode' = "panic"
                /\ fatal' = tl.msg
                /\ UNCHANGED <<cursor_position, screen_offset>>
           ELSE /\ cursor_position' = tl.cur
                /\ screen_offset' = tl.off
                /\ UNCHANGED <<mode, fatal>>
        /\ UNCHANGED <<size, render_help, render_search>>
        /\ SearchFrame

Unchanged(s) == [ok |-> TRUE, msg |-> "", string |-> s.string, stack |-> s.stack,
                 search_index |-> s.search_index,
                 line_indicies |-> s.line_indicies]

\* a key event with KeyCode::Char: the kind of the event is not looked at
SearchChar(c, kind) ==
    /\ mode = "search"
    /\ Len(string) < MaxQuery
    /\ SearchTurn(search_insert(Srch, text, previous_position.height, c), "SearchChar")

\* a key event with KeyCode::Backspace
SearchBackspace(kind) ==
    /\ mode = "search"
    /\ SearchTurn(search_backspace(Srch, previous_position.height), "SearchBackspace")

\* Ctrl-n
SearchNext(kind) ==
    /\ mode = "search"
    /\ SearchTurn([Unchanged(Srch) EXCEPT !.search_index = search_next(Srch)], "SearchNext")

\* Ctrl-p
SearchPrevious(kind) ==
    /\ mode = "search"
    /\ SearchTurn([Unchanged(Srch) EXCEPT !.search_index = search_previous(Srch)],
                  "SearchPrevious")

\* any other key and any other event
SearchOther ==
    /\ mode = "search"
    /\ SearchTurn(Unchanged(Srch), "SearchOther")

\* Event::Resize: View::resize, then the end of the turn
SearchResize(sz) ==
    /\ mode = "search"
    /\ LET o1 == handle_offset_screen_snap(cursor_position, screen_offset, sz,
                                           Len(text), render_search \/ render_help)
           tl == SearchTail(stack, search_index, cursor_position, o1, sz)
       IN  /\ size' = sz
           /\ IF tl.ok
              THEN /\ cursor_position' = tl.cur
                   /\ screen_offset' = tl.off
                   /\ UNCHANGED <<mode, fatal>>
              ELSE /\ mode' = "panic"
                   /\ fatal' = tl.msg
                   /\ cursor_position' = cursor_position
                   /\ screen_offset' = o1
    /\ last' = "SearchResize"
    /\ UNCHANGED <<string, stack, search_index, line_indicies, render_help,
                   render_search>>
    /\ SearchFrame

\* Search::clean_up_search and the end of handle_search
SearchLeave ==
    /\ string' = <<>>
    /\ stack' = <<>>
    /\ line_indicies' = {}
    /\ render_search' = FALSE
    /\ mode' = "normal"
    /\ UNCHANGED <<size, render_help, search_index, fatal>>
    /\ SearchFrame

\* (KeyCode::Esc, _): back to the screen state saved at entry
SearchEsc(kind) ==
    /\ mode = "search"
    /\ LET v == revert_screen_state(ViewOf(cursor_position, screen_offset))
       IN  /\ cursor_position' = v.cursor_position
           /\ screen_offset' = v.screen_offset
    /\ last' = "SearchEsc"
    /\ SearchLeave

\* (KeyCode::Enter, _): keep the cursor where the search put it
SearchEnter(kind) ==
    /\ mode = "search"
    /\ last' = "SearchEnter"
    /\ UNCHANGED <<cursor_position, screen_offset>>
    /\ SearchLeave

\* a key event whose kind is not Press, read by Editor::evaluate_event: it is
\* not processed, and a build with debug assertions panics on it
KeyNotPress(kind, debug_assertions) ==
    /\ mode = "normal"
    /\ kind # "Press"
    /\ IF debug_assertions
       THEN Crash("Unsupported event", "KeyNotPress")
       ELSE /\ last' = "KeyNotPress"
            /\ UNCHANGED <<bufvars, viewvars, should_quit, fatal, mode>>
            /\ UNCHANGED <<vimvars, subvars, disk, first_load, loopvars>>

----------------------------------------------------------------------------
(* Highlight: Buffer::get_segment and the loop of View::handle_highlight *)

\* whether byte offset i of raw is a char boundary
IsCharBoundary(raw, i) ==
    \/ i = 0
    \/ i = Len(raw)
    \/ i < Len(raw) /\ raw[i + 1] \notin {"BC", "A2"}

\* the str slice raw[a..b]: panics unless a <= b <= len and both are char
\* boundaries
Slice(raw, a, b) ==
    IF a > b \/ b > Len(raw)
    THEN [ok |-> FALSE, msg |-> "slice index out of range", str |-> <<>>]
    ELSE IF ~IsCharBoundary(raw, a) \/ ~IsCharBoundary(raw, b)
    THEN [ok |-> FALSE, msg |-> "byte index is not a char boundary", str |-> <<>>]
    ELSE [ok |-> TRUE, msg |-> "", str |-> SubSeq(raw, a + 1, b)]

\* the whole lines strictly between rows a and b, each with its newline
RECURSIVE MiddleLines(_, _, _)
MiddleLines(t, h, e) ==
    IF h >= e THEN <<>>
    ELSE t[h + 1].raw_string \o <<NL>> \o MiddleLines(t, h + 1, e)

\* Buffer::get_segment
get_segment(t, start, end_) ==
    IF start.height >= Len(t) \/ end_.height >= Len(t)
    THEN [ok |-> FALSE, msg |-> "index out of bounds", str |-> <<>>]
    ELSE IF start.height = end_.height
    THEN LET line_string == t[start.height + 1].raw_string
             line_len == SatSub(Len(line_string), 1)
         IN  IF end_.width = line_len
             THEN Slice(line_string, start.width, Len(line_string))
             ELSE Slice(line_string, start.width, end_.width)
    ELSE LET first == Slice(t[start.height + 1].raw_string, start.width,
                            Len(t[start.height + 1].raw_string))
             final == Slice(t[end_.height + 1].raw_string, 0, end_.width + 1)
         IN  IF ~first.ok THEN first
             ELSE IF ~final.ok THEN final
             ELSE [ok |-> TRUE, msg |-> "",
                   str |-> first.str \o <<NL>>
                           \o MiddleLines(t, start.height + 1, end_.height)
                           \o final.str]

\* Highlight::generate_copy_str
generate_copy_str(t, start, end_) == get_segment(t, start, end_)

\* the span handle_highlight hands to the copy routine for anchor cur and
\* endpoint e
CopySpan(cur, e) ==
    IF e.height > cur.height
    THEN [start |-> cur, end |-> e]
    ELSE [start |-> e, end |-> cur]

\* the endpoint after an arrow key; ok = FALSE when a row outside the buffer
\* is indexed, skip = TRUE when the key is passed over
MoveEnd(t, e, dir) ==
    LET Glen(h) == SatSub(grapheme_len(t[h + 1]), 1)
        oob == [ok |-> FALSE, skip |-> FALSE, end |-> e]
        to(p) == [ok |-> TRUE, skip |-> FALSE, end |-> p]
    IN  CASE dir = "Right" ->
               IF e.height >= Len(t) THEN oob
               ELSE IF e.width = Glen(e.height)
               THEN to(Pos(Min(e.height + 1, Len(t) - 1), 0))
               ELSE to(Pos(e.height, e.width + 1))
          [] dir = "Left" ->
               IF e.width = 0
               THEN IF SatSub(e.height, 1) >= Len(t) THEN oob
                    ELSE to(Pos(SatSub(e.height, 1), Glen(SatSub(e.height, 1))))
               ELSE to(Pos(e.height, e.width - 1))
          [] dir = "Down" ->
               IF e.height = Len(t) THEN [ok |-> TRUE, skip |-> TRUE, end |-> e]
               ELSE IF e.height + 1 >= Len(t) THEN oob
               ELSE to(Pos(e.height + 1, Min(e.width, Glen(e.height + 1))))
          [] dir = "Up" ->
               IF e.height = 0 THEN [ok |-> TRUE, skip |-> TRUE, end |-> e]
               ELSE IF e.height - 1 >= Len(t) THEN oob
               ELSE to(Pos(e.height - 1, Min(e.width, Glen(e.height - 1))))

HighlightFrame == UNCHANGED <<bufvars, vimvars, subvars, srchvars, rendered, should_quit, disk,
                             first_load>>

\* EditorCommand::Highlight: handle_highlight starts its own input loop at
\* the cursor; buffer.len() - 1 underflows on an empty buffer, which panics
\* in a build with overflow checks and wraps otherwise
Highlight(overflow_checks) ==
    /\ mode = "normal"
    /\ IF text = <<>> /\ overflow_checks
       THEN /\ mode' = "panic"
            /\ fatal' = "attempt to subtract with overflow"
            /\ UNCHANGED end
       ELSE /\ mode' = "highlight"
            /\ end' = cursor_position
            /\ UNCHANGED fatal
    /\ highlight_render' = TRUE
    /\ last' = "Highlight"
    /\ UNCHANGED <<viewvars, copy_span, copy_string>>
    /\ HighlightFrame

\* an arrow key
HighlightMove(dir) ==
    /\ mode = "highlight"
    /\ dir \in {"Right", "Left", "Down", "Up"}
    /\ LET r == MoveEnd(text, end, dir)
       IN  /\ r.end.width <= MaxLineLen
           /\ IF r.ok
              THEN /\ end' = r.end
                   /\ UNCHANGED <<mode, fatal>>
              ELSE /\ mode' = "panic"
                   /\ fatal' = "index out of bounds"
                   /\ UNCHANGED end
    /\ last' = "HighlightMove"
    /\ UNCHANGED <<viewvars, highlight_render, copy_span, copy_string>>
    /\ HighlightFrame

\* Event::Resize: View::resize
HighlightResize(sz) ==
    /\ mode = "highlight"
    /\ size' = sz
    /\ screen_offset' = handle_offset_screen_snap(cursor_position, screen_offset, sz,
                                                  Len(text),
                                                  render_search \/ render_help)
    /\ last' = "HighlightResize"
    /\ UNCHANGED <<cursor_position, render_help, mode, fatal, hlvars, rendered>>
    /\ HighlightFrame

\* any other key and any other event
HighlightOther ==
    /\ mode = "highlight"
    /\ last' = "HighlightOther"
    /\ UNCHANGED <<viewvars, mode, fatal, hlvars, rendered>>
    /\ HighlightFrame

\* (KeyCode::Esc, _): leave without copying
HighlightEsc ==
    /\ mode = "highlight"
    /\ mode' = "normal"
    /\ highlight_render' = FALSE
    /\ last' = "HighlightEsc"
    /\ UNCHANGED <<viewvars, fatal, end, copy_span, copy_string>>
    /\ HighlightFrame

\* Ctrl-c: leave the loop and hand the span to generate_copy_str
HighlightCopy ==
    /\ mode = "highlight"
    /\ highlight_render' = FALSE
    /\ LET span == CopySpan(cursor_position, end)
           r == generate_copy_str(text, span.start, span.end)
       IN  /\ copy_span' = <<span>>
           /\ IF r.ok
              THEN /\ copy_string' = <<r.str>>
                   /\ mode' = "normal"
                   /\ UNCHANGED fatal
              ELSE /\ mode' = "panic"
                   /\ fatal' = r.msg
                   /\ UNCHANGED copy_string
    /\ last' = "HighlightCopy"
    /\ UNCHANGED <<viewvars, end>>
    /\ HighlightFrame

\* Buffer::get_segment called with start and end_
GetSegment(start, end_) ==
    /\ mode = "normal"
    /\ LET r == get_segment(text, start, end_)
       IN  /\ copy_span' = <<[start |-> start, end |-> end_]>>
           /\ IF r.ok
              THEN /\ copy_string' = <<r.str>>
                   /\ UNCHANGED <<mode, fatal>>
              ELSE /\ mode' = "panic"
                   /\ fatal' = r.msg
                   /\ UNCHANGED copy_string
    /\ last' = "GetSegment"
    /\ UNCHANGED <<viewvars, end, highlight_render>>
    /\ HighlightFrame

----------------------------------------------------------------------------
(* Specifications *)

FileName == <<"f">>

\* Editor::new: View::default, then View::load when a file argument is given.
\* A failed load leaves the default buffer: empty, unnamed, is_saved = false.
InitLoaded(files, sizes) ==
    /\ disk \in files
    /\ size \in sizes
    /\ \E arg \in BOOLEAN :
         LET r == load(disk)
         IN  IF arg /\ r.ok
             THEN text = r.text /\ filename = <<FileName>> /\ is_saved = TRUE
             ELSE text = <<>> /\ filename = <<>> /\ is_saved = FALSE
    /\ cursor_position = Pos(0, 0)
    /\ screen_offset = Pos(0, 0)
    /\ render_help = FALSE
    /\ should_quit = FALSE
    /\ mode = "normal"
    /\ fatal = ""
    /\ last = "Init"
    /\ line = 0
    /\ filename_buffer = <<>>
    /\ caller = "save"
    /\ vim_cursor = Pos(0, 0)
    /\ vim_max_width = <<>>
    /\ vim_offset = Pos(0, 0)
    /\ vim_size = Size(0, 0)
    /\ queue = <<>>
    /\ events = 0
    /\ first_load = text
    /\ string = <<>>
    /\ stack = <<>>
    /\ search_index = 0
    /\ previous_position = Pos(0, 0)
    /\ previous_offset = Pos(0, 0)
    /\ line_indicies = {}
    /\ render_search = FALSE
    /\ end = Pos(0, 0)
    /\ highlight_render = FALSE
    /\ copy_span = <<>>
    /\ copy_string = <<>>
    /\ rendered = <<>>

\* the same, for files whose lines fit the bounds of the editing actions
InitWith(files, sizes) == InitLoaded(files, sizes) /\ WithinBounds(text)

Tick == events < MaxEvents /\ events' = events + 1
NoTick == UNCHANGED events

\* the session: saving, quitting, filename entry and Vim mode, on a buffer
\* edited by typing and Backspace
SessionFiles == {<<>>, <<<<"a", NL>>>>, <<<<"a", "a", NL>>>>}

Init == InitWith(SessionFiles, {Size(4, 6)})

\* typing goes on while the line under the cursor is shorter than MaxTyped
TypingRoom ==
    \A k \in 1..Len(text) : Len(text[k].string) < MaxTyped

Next ==
    \/ NoTick /\ TypingRoom /\ Insert("a")
    \/ NoTick /\ Delete
    \/ \E io \in IOOutcomes : NoTick /\ Save(io)
    \/ NoTick /\ Quit
    \/ \E key \in PromptKeys, io \in IOOutcomes : NoTick /\ Prompt(key, io)
    \/ \E c \in NameChars : NoTick /\ NameChar(c)
    \/ NoTick /\ NameBackspace
    \/ NoTick /\ NameOther
    \/ \E sz \in Sizes : NoTick /\ NameResize(sz)
    \/ \E io \in IOOutcomes : NoTick /\ NameEnter(io)
    \/ NoTick /\ EnterVim
    \/ \E sz \in Sizes : NoTick /\ VimResize(sz)
    \/ NoTick /\ VimExit
    \/ NoTick /\ TypingRoom /\ VimPaste(<<"a">>)
    \/ NoTick /\ VimPasteFails
    \/ NoTick /\ PasteFails
    \/ NoTick /\ VimColon
    \/ \E c \in ColonChars : NoTick /\ ColonNew(c)
    \/ NoTick /\ ColonBackspace
    \/ \E sz \in Sizes : NoTick /\ ColonResize(sz)
    \/ NoTick /\ ColonOther
    \/ \E io \in IOOutcomes : NoTick /\ ColonExecute(io)

Spec == Init /\ [][Next]_vars

\* normal-mode editing and navigation, for a bounded number of input events
ViewFiles == {<<>>,
              <<<<"a", "a", "a", NL, "a", NL, NL>>>>,
              <<<<SP, SP, SP, SP, "a", NL, "E6", "BC", "A2", NL>>>>}

ViewInit == InitWith(ViewFiles, Sizes)

ViewNext ==
    \/ \E d \in Directions : Tick /\ Move(d)
    \/ \E d \in {"Left", "Right"} : Tick /\ JumpWord(d)
    \/ \E sz \in Sizes : Tick /\ Resize(sz)
    \/ \E c \in InsertChars : Tick /\ Insert(c)
    \/ Tick /\ Tab
    \/ Tick /\ Delete
    \/ Tick /\ NewLine
    \/ \E p \in ClipTexts : Tick /\ Paste(p)
    \/ Tick /\ PasteFails
    \/ Tick /\ Help
    \/ Tick /\ JumpLine
    \/ \E d \in Digits : Tick /\ JumpDigit(d)
    \/ Tick /\ JumpBackspace
    \/ Tick /\ JumpEnter
    \/ Tick /\ JumpEsc
    \/ Tick /\ JumpOther
    \/ \E sz \in Sizes : Tick /\ JumpResize(sz)

ViewSpec == ViewInit /\ [][ViewNext]_vars

\* saving a loaded file unchanged and loading it again
IOBytes == {"a", NL, CR}

RECURSIVE SeqsUpTo(_, _)
SeqsUpTo(S, n) ==
    IF n = 0 THEN {<<>>}
    ELSE LET shorter == SeqsUpTo(S, n - 1)
         IN  shorter \cup {Append(q, x) : q \in shorter, x \in S}

\* text files with LF or CRLF line ends, with or without a final newline
IOFiles ==
    {<<f>> : f \in {g \in SeqsUpTo(IOBytes, MaxFileLen) :
                       \A i \in 1..Len(g) :
                           g[i] = CR => (i < Len(g) /\ g[i + 1] = NL)}}

\* View::load of the buffer's file, as the next start of the editor runs it
Reload ==
    /\ mode = "normal"
    /\ last = "Save"
    /\ LET r == load(disk)
       IN  IF r.ok
           THEN /\ text' = r.text
                /\ is_saved' = TRUE
                /\ last' = "Reload"
           ELSE /\ last' = "ReloadFails"
                /\ UNCHANGED <<text, is_saved>>
    /\ UNCHANGED <<filename, viewvars, vimvars, subvars, should_quit, mode, fatal,
                   disk, first_load, loopvars>>

IOInit == InitWith(IOFiles, {Size(4, 6)}) /\ filename # <<>>

IONext ==
    \/ \E io \in IOOutcomes : NoTick /\ last = "Init" /\ Save(io)
    \/ NoTick /\ Reload

IOSpec == IOInit /\ [][IONext]_vars

\* searching a loaded file from wherever the cursor was moved to
SearchFiles == ViewFiles \cup {<<<<"E6", "BC", "A2", "a", NL, "x", "a", "x", "a", NL>>>>}

SearchInit == InitWith(SearchFiles, Sizes)

SearchLoopNext ==
    \/ \E d \in {"Down", "End"} : NoTick /\ Move(d)
    \/ \E k \in KeyKinds, dbg \in BOOLEAN : NoTick /\ KeyNotPress(k, dbg)
    \/ NoTick /\ Search
    \/ \E c \in QueryChars, k \in KeyKinds : NoTick /\ SearchChar(c, k)
    \/ \E k \in KeyKinds : NoTick /\ SearchBackspace(k)
    \/ \E k \in KeyKinds : NoTick /\ SearchNext(k)
    \/ \E k \in KeyKinds : NoTick /\ SearchPrevious(k)
    \/ NoTick /\ SearchOther
    \/ \E sz \in Sizes : NoTick /\ SearchResize(sz)
    \/ \E k \in KeyKinds : NoTick /\ SearchEsc(k)
    \/ \E k \in KeyKinds : NoTick /\ SearchEnter(k)

SearchSpec == SearchInit /\ [][SearchLoopNext]_vars

\* selecting in a loaded file from wherever the cursor was moved to
HighlightInit == InitWith(ViewFiles, Sizes)

HighlightNext ==
    \/ \E d \in {"Down", "Right", "End"} : NoTick /\ Move(d)
    \/ \E oc \in BOOLEAN : NoTick /\ Highlight(oc)
    \/ \E d \in {"Right", "Left", "Down", "Up"} : NoTick /\ HighlightMove(d)
    \/ \E sz \in Sizes : NoTick /\ HighlightResize(sz)
    \/ NoTick /\ HighlightOther
    \/ NoTick /\ HighlightEsc
    \/ NoTick /\ HighlightCopy

HighlightSpec == HighlightInit /\ [][HighlightNext]_vars

\* Buffer::get_segment on the lines of a loaded file, for every pair of
\* positions in the text
Positions(t) ==
    {Pos(h, w) : h \in 0..(Len(t) - 1), w \in 0..MaxLineLen}
        \cap {p \in [height : 0..MaxLines, width : 0..MaxLineLen] :
                 p.width <= Len(t[p.height + 1].raw_string)}

SegmentInit == InitWith(ViewFiles, {Size(4, 6)})

SegmentNext ==
    \E start \in Positions(text), end_ \in Positions(text) :
        NoTick /\ last = "Init" /\ GetSegment(start, end_)

SegmentSpec == SegmentInit /\ [][SegmentNext]_vars

\* Vim-mode navigation of a loaded file, entered from normal mode
VimMoveInit == InitWith(ViewFiles, {Size(4, 6)})

VimMoveNext ==
    \/ \E d \in Directions : NoTick /\ Move(d)
    \/ NoTick /\ EnterVim
    \/ \E d \in VimMoveDirections : NoTick /\ VimMove(d)
    \/ \E d \in {"PageUp", "PageDown"} : NoTick /\ VimPage(d)
    \/ NoTick /\ VimExit

VimMoveSpec == VimMoveInit /\ [][VimMoveNext]_vars

----------------------------------------------------------------------------
(* Buffer operations called with the cursor as their position *)

\* what a Buffer call returned in r: the new text, or the panic
BufferCall(r, cmd) ==
    /\ IF r.ok
       THEN /\ text' = r.text
            /\ is_saved' = r.is_saved
            /\ UNCHANGED <<mode, fatal>>
       ELSE /\ mode' = "panic"
            /\ fatal' = r.msg
            /\ UNCHANGED <<text, is_saved>>
    /\ last' = cmd
    /\ UNCHANGED <<screen_offset, size, render_help, filename, vimvars, subvars,
                   should_quit, disk, first_load, loopvars>>

\* Buffer::split_line(&cursor_position)
SplitLine ==
    /\ mode = "normal"
    /\ text # <<>>
    /\ BufferCall(split_line(B, cursor_position), "split_line")
    /\ UNCHANGED cursor_position

\* Buffer::join_line(cursor_position.height + 1)
JoinLine ==
    /\ mode = "normal"
    /\ BufferCall(join_line(B, cursor_position.height + 1), "join_line")
    /\ UNCHANGED cursor_position

\* split_line and join_line on a loaded file, at a cursor placed by moves
SplitJoinInit == InitWith(ViewFiles, Sizes)

SplitJoinNext ==
    \/ \E d \in Directions : NoTick /\ last \in {"Init", "Move"} /\ Move(d)
    \/ NoTick /\ last \in {"Init", "Move"} /\ SplitLine
    \/ NoTick /\ last = "split_line" /\ JoinLine

SplitJoinSpec == SplitJoinInit /\ [][SplitJoinNext]_vars

----------------------------------------------------------------------------
(* Rendering: Line::get (get_line_subset) and View::render *)

\* TextFragment.replacement_text: Line::from gives a replacement character to
\* zero-width graphemes only; the graphemes here are one or two columns wide
replacement_text(g) == None

\* the loop of Line::get over the fragments from the k-th on
RECURSIVE GetLoop(_, _, _, _, _)
GetLoop(s, k, current_position, start, end_) ==
    IF k > Len(s) THEN <<>>
    ELSE LET e == RenderWidth(s[k]) + current_position
             item == IF e > end_ \/ current_position < start THEN "~"
                     ELSE IF replacement_text(s[k]) # None
                          THEN replacement_text(s[k])[1]
                          ELSE s[k]
         IN  IF current_position > end_ THEN <<>>
             ELSE (IF e > start THEN <<item>> ELSE <<>>)
                  \o GetLoop(s, k + 1, e, start, end_)

\* Line::get(range): the items drawn for the columns start .. end_ - 1
Line_get(l, start, end_) ==
    IF start >= end_ THEN <<>> ELSE GetLoop(l.string, 1, 0, start, end_)

\* View::render of the buffer rows in the viewport, plain lines only
Render ==
    /\ mode = "normal"
    /\ ~render_search /\ ~highlight_render
    /\ size.width # 0 /\ size.height # 0
    /\ LET screen_cut == IF render_help \/ render_search THEN 2 ELSE 1
           rows == {r \in screen_offset.height..
                            (screen_offset.height + size.height - screen_cut - 1) :
                       r < Len(text)}
           a == screen_offset.width
           b == screen_offset.width + size.width
       IN  rendered' = <<[start |-> a, end |-> b,
                          rows |-> [r \in rows |-> Line_get(text[r + 1], a, b)]]>>
    /\ last' = "render"
    /\ UNCHANGED <<bufvars, viewvars, vimvars, subvars, srchvars, hlvars, should_quit,
                   mode, fatal, disk, first_load>>

\* moving through a loaded file, resizing and drawing it
RenderInit == InitWith(ViewFiles, Sizes)

RenderNext ==
    \/ \E d \in Directions : NoTick /\ Move(d)
    \/ \E sz \in Sizes : NoTick /\ Resize(sz)
    \/ NoTick /\ Render

RenderSpec == RenderInit /\ [][RenderNext]_vars

----------------------------------------------------------------------------
(* Claims *)

CursorInView ==
    /\ screen_offset.height <= cursor_position.height
    /\ cursor_position.height < screen_offset.height + size.height
    /\ screen_offset.width <= cursor_position.width
    /\ cursor_position.width < screen_offset.width + size.width

ViewCommands == {"Move", "Insert", "Tab", "Delete", "NewLine", "JumpWord",
                 "JumpLine", "Paste", "Resize"}

\* C1: after every normal-mode command handled by View::handle_event (Move,
\* Insert, Tab, Delete, NewLine, JumpWord, JumpLine, Paste, Resize), with a
\* viewport of at least one row and one column, the cursor lies inside the
\* viewport: offset <= cursor < offset + size in both dimensions.
C1_CursorInViewAfterCommand ==
    (/\ mode = "normal"
     /\ last \in ViewCommands
     /\ size.height >= 1
     /\ size.width >= 1) => CursorInView

\* C2: whenever the buffer is not empty, the cursor's row is a row of the
\* buffer and its column is at most the grapheme_len of that row.
C2_CursorInBuffer ==
    (text # <<>> /\ mode \in {"normal", "jump"}) =>
        /\ cursor_position.height < Len(text)
        /\ cursor_position.width <= grapheme_len(text[cursor_position.height + 1])

\* the buffer's text: every line's fragments
Fragments(t) == [k \in 1..Len(t) |-> t[k].string]

\* C3: every step that changes the buffer's text leaves is_saved = false.
C3_EditClearsSaved ==
    [][Fragments(text') # Fragments(text) => is_saved' = FALSE]_vars

\* C4: for every line of the buffer, raw_string is the in-order concatenation
\* of the text of its fragments.
C4_RawStringInSync ==
    \A k \in 1..Len(text) : text[k].raw_string = Encode(text[k].string)

\* the bytes of the buffer's lines, each followed by one newline
RECURSIVE LinesBytes(_)
LinesBytes(t) ==
    IF t = <<>> THEN <<>>
    ELSE Encode(Head(t).string) \o <<NL>> \o LinesBytes(Tail(t))

\* a step that called Buffer::save has just returned from it
SaveReturned ==
    /\ mode # "panic"
    /\ \/ last \in {"Save", "NameSave", "NameQuitSave", ":w", ":wq"}
       \/ last = "Ctrl-n" /\ mode = "done"

\* C5: after Buffer::save returns, the file holds exactly the buffer's lines in
\* order, each followed by one newline, and nothing else.
C5_FileIsBufferAfterSave ==
    SaveReturned => disk = <<LinesBytes(text)>>

RawStrings(t) == [k \in 1..Len(t) |-> t[k].raw_string]

\* C6: loading a file, saving it unchanged and loading it again yields the
\* same number of lines with the same raw_string per line as the first load.
C6_SaveLoadRoundTrip ==
    last = "Reload" => RawStrings(text) = RawStrings(first_load)

\* C7: Buffer::save is never reached without a filename: the session never
\* ends in the 'save without filename' failure.
C7_SaveHasFilename ==
    fatal # "Trying to save without filename being set"

\* C8: a failure to open or to write the file during save never ends the
\* session.
C8_SaveFailureNotFatal ==
    fatal \notin {"Error opening file", "Error on write"}

\* C9: Quit on a modified, non-empty buffer leads to the confirmation prompt;
\* in the prompt every event other than Ctrl-y and Ctrl-n leaves the editor in
\* the prompt with buffer and flags as they were; and neither Quit nor any
\* prompt event other than Ctrl-n writes the file.
C9_QuitPrompt ==
    [][/\ (mode = "normal" /\ last' = "Quit" /\ ~is_saved /\ text # <<>>)
            => (mode' = "prompt" /\ ~should_quit' /\ disk' = disk)
       /\ (mode = "prompt" /\ last' \notin {"Ctrl-y", "Ctrl-n"})
            => (mode' = "prompt" /\ ~should_quit' /\ UNCHANGED <<bufvars, disk>>)
       /\ (mode = "prompt" /\ last' # "Ctrl-n") => disk' = disk]_vars

\* C9: the prompt has read an event other than Ctrl-y and Ctrl-n
C9_Witness ==
    /\ mode = "prompt"
    /\ last \in {"other key", "resize"}
    /\ ~is_saved
    /\ text # <<>>

\* C10: executing `:q` while is_saved is false does not end the session: the
\* controller is back in Vim mode and buffer text, filename and is_saved are
\* unchanged.
C10_UnsavedQuitRejected ==
    [][(mode = "colon" /\ queue = <<"q">> /\ ~is_saved /\ last' = ":q")
         => (mode' = "vim" /\ ~should_quit' /\ UNCHANGED <<text, filename, is_saved>>)]_vars

\* C10: `:q` has been executed on an unsaved buffer
C10_Witness ==
    /\ last = ":q"
    /\ mode = "vim"
    /\ ~is_saved

\* C11: executing `:wq` or `:q!` ends the session (run returns false); after
\* `:wq` is_saved is true; and a session ended from Vim mode with is_saved
\* false was ended by `:q!`.
C11_WriteQuitEndsSession ==
    [][/\ (mode = "colon" /\ last' \in {":wq", ":q!"})
            => (mode' = "done" /\ should_quit')
       /\ (mode = "colon" /\ last' = ":wq") => is_saved'
       /\ (mode \in {"vim", "colon"} /\ mode' = "done" /\ ~is_saved')
            => last' = ":q!"]_vars

\* C12: executing a colon queue that is not one of w, q, wq, q! leaves the
\* controller in the colon sub-state.
C12_InvalidQueueStaysInColon ==
    [][(mode = "colon" /\ last' \in {":?", ":error"}) => mode' = "colon"]_vars

\* C13: when Vim mode has exited by Escape, the caller is back in normal mode
\* with cursor, offset and size equal to Vim mode's final values.
C13_VimExitHandsBack ==
    last = "VimExit" =>
        /\ mode = "normal"
        /\ ~should_quit
        /\ cursor_position = vim_cursor
        /\ screen_offset = vim_offset
        /\ size = vim_size

\* C13: Vim mode has exited by Escape after a resize it received
C13_Witness ==
    /\ last = "VimExit"
    /\ size = Size(2, 3)
    /\ cursor_position # Pos(0, 0)

\* C14: handle_search saves cursor and offset at entry, no search-mode event
\* changes the buffer or the saved pair, and on Escape cursor and offset are
\* the saved pair again.
C14_EscapeRestores ==
    [][/\ (mode = "normal" /\ mode' = "search")
            => (previous_position' = cursor_position
                /\ previous_offset' = screen_offset)
       /\ mode = "search"
            => UNCHANGED <<text, filename, is_saved, previous_position,
                           previous_offset>>
       /\ (mode = "search" /\ last' = "SearchEsc")
            => (/\ mode' = "normal"
                /\ cursor_position' = previous_position
                /\ screen_offset' = previous_offset)]_vars

\* C14: a search that moved through its hits was left by Escape
C14_Witness ==
    /\ last = "SearchEsc"
    /\ search_index > 0
    /\ cursor_position # Pos(0, 0)

\* C15: in search mode the stack has one entry per query character and its
\* top is Buffer::search of the query; after Enter or Escape the query, the
\* stack and the line set are empty.
C15_StackMatchesQuery ==
    /\ mode = "search" =>
          /\ Len(stack) = Len(string)
          /\ stack # <<>> => stack[Len(stack)] = search(text, Encode(string), 1)
    /\ last \in {"SearchEsc", "SearchEnter"} =>
          (string = <<>> /\ stack = <<>> /\ line_indicies = {})

\* C15: a two-character query with hits for its first character, after one
\* Backspace
C15_Witness ==
    /\ mode = "search"
    /\ last = "SearchBackspace"
    /\ Len(string) = 1
    /\ stack[1] # <<>>

\* the rows of the hits on top of stack stk
TopRows(stk) ==
    IF stk = <<>> THEN {}
    ELSE {stk[Len(stk)][k].height : k \in 1..Len(stk[Len(stk)])}

\* C16: Backspace on a query of any length, a one-character query included,
\* keeps the search active with the query, the stack and the line set as they
\* were before the last character, and with the cursor back at its pre-search
\* place when the query is empty again.
C16_BackspaceUndoes ==
    [][(mode = "search" /\ last' = "SearchBackspace" /\ string # <<>>)
         => (/\ mode' = "search"
             /\ string' = SubSeq(string, 1, Len(string) - 1)
             /\ stack' = SubSeq(stack, 1, Len(stack) - 1)
             /\ line_indicies' = TopRows(stack')
             /\ string' = <<>> => (/\ cursor_position' = previous_position
                                   /\ screen_offset' = previous_offset))]_vars

\* the state a key event that is not a press must leave alone
KeyState == <<text, filename, is_saved, cursor_position, screen_offset, string,
              stack, search_index, end, filename_buffer, line, queue>>

\* C20: a key event whose kind is not Press changes neither the buffer, the
\* cursor, the offset nor the state of the mode that reads it.
C20_NonPressIgnored ==
    [][\A k \in KeyKinds \ {"Press"} :
         (\/ \E c \in QueryChars : SearchChar(c, k)
          \/ SearchBackspace(k)
          \/ SearchNext(k)
          \/ SearchPrevious(k)
          \/ SearchEsc(k)
          \/ SearchEnter(k)
          \/ \E dbg \in BOOLEAN : KeyNotPress(k, dbg))
         => UNCHANGED KeyState]_vars

\* C17: the span handed to the copy routine on Ctrl-c is ordered: its start
\* is on an earlier row than its end, or on the same row at a column that is
\* not greater.
C17_CopySpanOrdered ==
    last = "HighlightCopy" =>
        LET s == copy_span[1]
        IN  \/ s.start.height < s.end.height
            \/ s.start.height = s.end.height /\ s.start.width <= s.end.width

\* C18: for start and end on one row with start.width <= end.width,
\* get_segment returns the bytes of columns start.width up to but excluding
\* end.width.
C18_SegmentExcludesEnd ==
    (last = "GetSegment"
     /\ copy_span[1].start.height = copy_span[1].end.height
     /\ copy_span[1].start.width <= copy_span[1].end.width) =>
        /\ mode # "panic"
        /\ copy_string = <<SubSeq(text[copy_span[1].start.height + 1].raw_string,
                                  copy_span[1].start.width + 1,
                                  copy_span[1].end.width)>>

\* the quit prompt reads a resize event with dimensions sz
PromptResize(sz) == \E io \in IOOutcomes : Prompt("resize", io)

\* C19: in every sub-mode that holds the input loop a resize event sets that
\* mode's size to the new dimensions and leaves the mode's other state (colon
\* queue, query and stack, endpoint, typed filename, typed line number)
\* unchanged.
C19_ResizeInSubModes ==
    [][\A sz \in Sizes :
         /\ VimResize(sz) => (vim_size' = sz /\ UNCHANGED <<vim_cursor, vim_offset>>)
         /\ ColonResize(sz) => (vim_size' = sz /\ UNCHANGED <<queue, mode>>)
         /\ SearchResize(sz) => (size' = sz /\ UNCHANGED <<string, stack, mode>>)
         /\ HighlightResize(sz) => (size' = sz /\ UNCHANGED <<end, mode>>)
         /\ NameResize(sz) => (size' = sz /\ UNCHANGED <<filename_buffer, mode>>)
         /\ JumpResize(sz) => (size' = sz /\ UNCHANGED <<line, mode>>)
         /\ PromptResize(sz) => (size' = sz /\ UNCHANGED mode)]_vars

\* C21: when the clipboard read fails, Paste leaves buffer text, cursor and
\* is_saved unchanged and the session continues, in normal mode as well as in
\* Vim mode.
C21_FailedPasteIsNoOp ==
    [][(PasteFails \/ VimPasteFails) =>
         /\ UNCHANGED <<text, is_saved, cursor_position, vim_cursor, mode>>
         /\ mode' # "panic"]_vars

\* cur is a place in the text t: a row of the buffer and a column of that row
InBuffer(t, cur) ==
    /\ cur.height < Len(t)
    /\ cur.width <= grapheme_len(t[cur.height + 1])

\* C22: for every non-empty buffer, every in-bounds cursor and every
\* Direction, Direction::move_cursor (Vim mode) and View::move_cursor (normal
\* mode) produce the same resulting cursor row and column.
C22_SameMoveInEveryMode ==
    [][\A d \in Directions :
         (VimStep(d) /\ text # <<>> /\ InBuffer(text, vim_cursor)) =>
            /\ MoveTarget(text, vim_cursor, d).ok
            /\ vim_cursor' = MoveTarget(text, vim_cursor, d).cur]_vars

\* C23: for every line and every split index 0 <= w <= number of fragments,
\* split_line at (r, w) followed by join_line(r + 1) restores the fragment
\* sequence of line r, the buffer's line count and every other line.
C23_SplitThenJoinRestores ==
    (/\ last = "join_line"
     /\ cursor_position.width <= Len(first_load[cursor_position.height + 1].string)) =>
        /\ mode # "panic"
        /\ Len(text) = Len(first_load)
        /\ Fragments(text) = Fragments(first_load)
        /\ \A k \in 1..Len(text) :
             k # cursor_position.height + 1 => text[k] = first_load[k]

\* a line of three fragments was split after its first fragment and joined again
C23_Witness ==
    /\ last = "join_line"
    /\ mode = "normal"
    /\ cursor_position = Pos(0, 1)
    /\ Len(first_load[1].string) = 3
    /\ Len(text) = 3

\* the fragments of row h of t without the four at indices c .. c + 3
WithoutFour(t, h, c) ==
    LET s == t[h + 1].string
    IN  SubSeq(s, 1, c) \o SubSeq(s, c + 5, Len(s))

\* C24: after one tab is inserted at cursor column c (four space fragments)
\* and the cursor stands at c + 4, a single update_line_delete removes exactly
\* those four fragments, restores the line's previous fragment sequence and
\* leaves the cursor at column c.
C24_TabDeletedAsOne ==
    [][LET h == cursor_position.height
           c == cursor_position.width
       IN  /\ (Tab /\ mode' = "normal" /\ text # <<>>) =>
                 /\ cursor_position' = Pos(h, c + 4)
                 /\ SubSeq(text'[h + 1].string, c + 1, c + 4) = <<SP, SP, SP, SP>>
                 /\ WithoutFour(text', h, c) = text[h + 1].string
           /\ (last = "Tab" /\ Delete) =>
                 /\ mode' = "normal"
                 /\ cursor_position' = Pos(h, c - 4)
                 /\ Len(text') = Len(text)
                 /\ \A k \in 1..Len(text) :
                      text'[k].string = IF k = h + 1 THEN WithoutFour(text, h, c - 4)
                                        ELSE text[k].string]_vars

\* a Tab and then a Delete: the fragments are those of the loaded file again,
\* the cursor is back at its column and raw_string still holds the tab
C24_Witness ==
    /\ last = "Delete"
    /\ mode = "normal"
    /\ Fragments(text) = Fragments(first_load)
    /\ cursor_position.height < Len(text)
    /\ cursor_position.width = 1
    /\ text[cursor_position.height + 1].raw_string =
          <<"a", SP, SP, SP, SP>>

\* the fragment indices of s that stand at column w
IndexAtColumn(s, w) == {i \in 0..Len(s) : SumWidth(SubSeq(s, 1, i)) = w}

\* C25: update_line_insert places the new fragment at the cursor's column:
\* afterwards the render widths of the fragments before the new fragment sum
\* to the old pos.width, pos.width has advanced by the new fragment's render
\* width and the line's grapheme_len has grown by the same amount, also on
\* lines with double-width fragments left of the cursor.
C25_InsertAtCursorColumn ==
    [][\A c \in InsertChars :
         LET h == cursor_position.height
             w == cursor_position.width
         IN  (/\ Insert(c)
              /\ h < Len(text)
              /\ IndexAtColumn(text[h + 1].string, w) # {}) =>
                /\ mode' = "normal"
                /\ cursor_position' = Pos(h, w + RenderWidth(c))
                /\ grapheme_len(text'[h + 1]) =
                     grapheme_len(text[h + 1]) + RenderWidth(c)
                /\ \E i \in IndexAtColumn(text[h + 1].string, w) :
                     text'[h + 1].string = VecInsert(text[h + 1].string, i, c)]_vars

\* the start columns of the occurrences of the characters pat in the
\* fragments s, found left to right without overlap from fragment i on
RECURSIVE Occurrences(_, _, _)
Occurrences(s, pat, i) ==
    IF i + Len(pat) - 1 > Len(s) THEN <<>>
    ELSE IF SubSeq(s, i, i + Len(pat) - 1) = pat
         THEN <<SumWidth(SubSeq(s, 1, i - 1))>> \o Occurrences(s, pat, i + Len(pat))
         ELSE Occurrences(s, pat, i + 1)

\* the occurrences in every line from line i on, by row and then by column
RECURSIVE Hits(_, _, _)
Hits(t, pat, i) ==
    IF i > Len(t) THEN <<>>
    ELSE LET cols == Occurrences(t[i].string, pat, 1)
         IN  [k \in 1..Len(cols) |-> Pos(i - 1, cols[k])] \o Hits(t, pat, i + 1)

\* C26: Buffer::search(p), for a non-empty pattern p, returns in ascending
\* row and then column order exactly the start columns of the non-overlapping
\* left-to-right occurrences of p in each line and no position for a line
\* that does not contain p.
C26_SearchReturnsColumns ==
    (mode = "search" /\ stack # <<>>) =>
        stack[Len(stack)] = Hits(text, string, 1)

\* the items of the fragments of s that overlap columns a .. b - 1, from the
\* k-th fragment on, which starts at column c
RECURSIVE VisibleItems(_, _, _, _, _)
VisibleItems(s, k, c, a, b) ==
    IF k > Len(s) THEN <<>>
    ELSE LET e == c + RenderWidth(s[k])
         IN  (IF c < b /\ e > a
              THEN <<IF c < a \/ e > b THEN "~" ELSE s[k]>>
              ELSE <<>>)
             \o VisibleItems(s, k + 1, e, a, b)

\* C27: Line::get for a column range [a, b) emits one item per fragment that
\* overlaps columns [a, b) and nothing for a fragment entirely left of a or
\* starting at or after b: `~` for a fragment only partly inside the range,
\* otherwise the override character or the grapheme; so the rendered width
\* never exceeds b - a.
C27_SubsetWithinRange ==
    rendered # <<>> =>
        LET r == rendered[1]
        IN  \A row \in DOMAIN r.rows :
              /\ r.rows[row] = VisibleItems(text[row + 1].string, 1, 0, r.start, r.end)
              /\ SumWidth(r.rows[row]) <= r.end - r.start

\* the steps of normal mode that end in View::handle_offset_screen_snap
Snaps ==
    \/ \E sz \in Sizes : Resize(sz)
    \/ \E d \in {"Home", "End", "PageUp", "PageDown"} : Move(d)

\* C28: after handle_offset_screen_snap, for any cursor inside the buffer,
\* any previous offset, any size with at least one row and one column, and
\* with or without the search/help bar active, the cursor lies inside the
\* viewport.
C28_SnapPutsCursorInView ==
    [][(/\ Snaps
        /\ mode' = "normal"
        /\ text # <<>>
        /\ InBuffer(text, cursor_position')
        /\ size'.height >= 1
        /\ size'.width >= 1) => CursorInView']_vars

\* the steps of normal mode that end in View::update_offset_single_move
SingleMoves ==
    \/ \E d \in {"Up", "Down", "Left", "Right"} :
         /\ Move(d)
         /\ text # <<>>
         /\ MoveTarget(text, cursor_position, d).ok
         /\ ~MoveTarget(text, cursor_position, d).snap
    \/ \E c \in InsertChars : Insert(c)

Distance(a, b) == IF a >= b THEN a - b ELSE b - a

\* C29: each call of update_offset_single_move, as made after Up/Down/Left/
\* Right moves and after character insertion, changes offset.height by at
\* most one and offset.width by at most one.
C29_SingleMoveShiftsByOne ==
    [][(SingleMoves /\ mode' = "normal") =>
         /\ Distance(screen_offset'.height, screen_offset.height) <= 1
         /\ Distance(screen_offset'.width, screen_offset.width) <= 1]_vars

\* the edge policies: where a cursor cur of the text t goes in direction d
\* when it stands at an edge, carried being the column a vertical move aims
\* for; cur itself where no policy applies
EdgeCase(t, cur, d) ==
    \/ d \in {"Up", "Down"}
    \/ d = "Left" /\ cur.width = 0
    \/ d = "Right" /\ cur.width = grapheme_len(t[cur.height + 1])

EdgeTarget(t, cur, carried, d) ==
    LET h == cur.height
        bottom == Len(t) - 1
        glen(r) == grapheme_len(t[r + 1])
    IN  CASE d = "Left" -> IF h > 0 THEN Pos(h - 1, glen(h - 1)) ELSE cur
          [] d = "Right" -> IF h < bottom THEN Pos(h + 1, 0) ELSE cur
          [] d = "Up" -> Pos(SatSub(h, 1), Min(carried, glen(SatSub(h, 1))))
          [] d = "Down" -> Pos(Min(h + 1, bottom), Min(carried, glen(Min(h + 1, bottom))))

\* the column a vertical move in Vim mode aims for
VimCarried == IF vim_max_width = None THEN vim_cursor.width ELSE vim_max_width[1]

\* C30: Left at column 0 of row r > 0 moves the cursor to (r - 1, length of
\* row r - 1); Right at the end of a row that is not the last moves it to
\* (r + 1, 0); Left at (0, 0) and Right at the end of the last row leave it
\* unchanged; Up and Down clamp the column to the target line's length. This
\* holds in normal mode and in Vim mode.
C30_EdgePolicies ==
    [][\A d \in {"Left", "Right", "Up", "Down"} :
         /\ (/\ Move(d)
             /\ text # <<>>
             /\ InBuffer(text, cursor_position)
             /\ EdgeCase(text, cursor_position, d)) =>
               /\ mode' = "normal"
               /\ cursor_position' =
                    EdgeTarget(text, cursor_position, cursor_position.width, d)
         /\ (/\ VimMove(d)
             /\ text # <<>>
             /\ InBuffer(text, vim_cursor)
             /\ EdgeCase(text, vim_cursor, d)) =>
               /\ mode' = "vim"
               /\ vim_cursor' = EdgeTarget(text, vim_cursor, VimCarried, d)]_vars

\* in Vim mode, Down from the end of a line of three columns was clamped to
\* the end of a line of one column
C30_Witness ==
    /\ mode = "vim"
    /\ last = "VimMove"
    /\ vim_cursor = Pos(1, 1)
    /\ vim_max_width = Some(3)
    /\ grapheme_len(text[2]) = 1

\* C31: Backspace at column 0 of row r > 0 reduces the line count by one,
\* leaves row r - 1 equal to its old fragments followed by row r's fragments,
\* and puts the cursor at (r - 1, old length of row r - 1); Backspace at
\* (0, 0) changes neither the buffer nor the cursor.
C31_BackspaceJoinsLines ==
    [][LET r == cursor_position.height
       IN  /\ (Delete /\ cursor_position.width = 0 /\ r > 0 /\ r < Len(text)) =>
                 /\ mode' = "normal"
                 /\ Len(text') = Len(text) - 1
                 /\ text'[r].string = text[r].string \o text[r + 1].string
                 /\ cursor_position' = Pos(r - 1, grapheme_len(text[r]))
                 /\ \A k \in 1..Len(text') :
                      k # r => text'[k].string = text[IF k < r THEN k ELSE k + 1].string
           /\ (Delete /\ cursor_position = Pos(0, 0)) =>
                 /\ mode' = "normal"
                 /\ UNCHANGED <<text, cursor_position>>]_vars

\* Down and then Backspace at (1, 0): row 1 went to the end of row 0, on a
\* file whose rows hold different characters
C31_Witness ==
    /\ last = "Delete"
    /\ events = 2
    /\ Len(first_load) = 2
    /\ Len(text) = 1
    /\ text[1].string = first_load[1].string \o first_load[2].string
    /\ cursor_position = Pos(0, grapheme_len(first_load[1]))

\* Enter at the end of the cursor's line, on a row of the buffer or on an
\* empty buffer: the case in which the handler calls new_line
EnterAtEnd ==
    /\ NewLine
    /\ \/ text = <<>> /\ cursor_position = Pos(0, 0)
       \/ /\ cursor_position.height < Len(text)
          /\ cursor_position.width = grapheme_len(text[cursor_position.height + 1])

\* new_line(row) turned base into after: one line more, the new line at
\* index row + 1, every other line as it was
OneLineInserted(base, after, row) ==
    /\ Len(after) = Len(base) + 1
    /\ \A k \in 1..Len(after) :
         /\ k <= row + 1 => after[k] = base[k]
         /\ k > row + 2 => after[k] = base[k - 1]
    /\ \A k \in 1..Len(after[row + 2].string) : after[row + 2].string[k] = SP

\* C32: new_line(row), as executed for Enter at the end of a line, increases
\* the number of lines by exactly one, inserts the new line at index row + 1
\* and leaves every other line unchanged, also when the buffer is empty.
C32_NewLineAddsOneLine ==
    [][EnterAtEnd =>
          /\ mode' = "normal"
          /\ OneLineInserted(text, text', cursor_position.height)]_vars

\* C32 as the code has it: on an empty buffer new_line first pushes the
\* empty line the cursor stands on, so two lines result; on any other buffer
\* exactly one line is added at index row + 1 and the rest is unchanged.
C32_NewLineAfterImplicitRow ==
    [][EnterAtEnd =>
          /\ mode' = "normal"
          /\ OneLineInserted(IF text = <<>> THEN <<EmptyLine>> ELSE text,
                             text', cursor_position.height)]_vars

\* Enter at the end of a non-empty row of the loaded file
C32_Witness ==
    /\ last = "NewLine"
    /\ first_load # <<>>
    /\ Len(text) = Len(first_load) + 1
    /\ cursor_position.height > 0
    /\ text[cursor_position.height].string # <<>>
    /\ \A k \in 1..Len(first_load) :
         text[IF k <= cursor_position.height THEN k ELSE k + 1] = first_load[k]


----------------------------------------------------------------------------
(* Indentation: num_tabs and new_line on one line of spaces and letters *)

\* one-line files over a space and a letter, up to MaxIndent characters
IndentFiles ==
    {<<l \o <<NL>>>> : l \in UNION {[1..n -> {SP, "a"}] : n \in 1..MaxIndent}}

\* Buffer::new_line(cursor_position.height)
NewLineCall ==
    /\ mode = "normal"
    /\ last = "Init"
    /\ BufferCall(new_line(B, cursor_position.height), "new_line")
    /\ UNCHANGED cursor_position

IndentInit == InitLoaded(IndentFiles, {Size(4, 6)})

IndentNext == NoTick /\ NewLineCall

IndentSpec == IndentInit /\ [][IndentNext]_vars

\* the length of the run of spaces that s begins with
RECURSIVE LeadingSpaces(_)
LeadingSpaces(s) ==
    IF s # <<>> /\ Head(s) = SP THEN 1 + LeadingSpaces(Tail(s)) ELSE 0

\* C33: for a line that begins with at least four spaces, num_tabs returns
\* floor(k / 4), k the length of the leading run of spaces, whatever follows
\* the run, and new_line indents the inserted line with exactly 4 times that
\* many spaces.
C33_NumTabsCountsLeadingRun ==
    [][(NewLineCall /\ text # <<>> /\ LeadingSpaces(text[1].string) >= 4) =>
          LET k == LeadingSpaces(text[1].string)
          IN  /\ num_tabs(text, 0) = k \div 4
              /\ mode' = "normal"
              /\ text'[2].string = Repeat(SP, 4 * (k \div 4))]_vars


----------------------------------------------------------------------------
(* Word motions of Vim mode: w, e and b *)

\* a word ends at fragment index i: a non-space followed by a space or by
\* the end of the line
WordEnd(s, i) == s[i + 1] # SP /\ (i = Len(s) - 1 \/ s[i + 2] = SP)
WordEnds(s) == {i \in 0..(Len(s) - 1) : WordEnd(s, i)}

\* Line::begining_of_current_word(w): the last word start left of w;
\* Line::begining_of_current_word_spillover(): the last word start of the line
Line_begining_of_current_word(l, w) ==
    LET c == {i \in WordStarts(l.string) : i < w}
    IN  IF c = {} THEN None ELSE Some(SetMax(c))
Line_begining_of_current_word_spillover(l) ==
    IF WordStarts(l.string) = {} THEN None ELSE Some(SetMax(WordStarts(l.string)))

\* Line::begining_of_next_word(w): the first word start right of w;
\* Line::begining_of_next_word_spillover(): the first word start of the line
Line_begining_of_next_word(l, w) ==
    LET c == {i \in WordStarts(l.string) : i > w}
    IN  IF c = {} THEN None ELSE Some(SetMin(c))
Line_begining_of_next_word_spillover(l) ==
    IF WordStarts(l.string) = {} THEN None ELSE Some(SetMin(WordStarts(l.string)))

\* Line::end_of_current_word(w): the first word end right of w;
\* Line::end_of_current_word_spillover(): the first word end of the line
Line_end_of_current_word(l, w) ==
    LET c == {i \in WordEnds(l.string) : i > w}
    IN  IF c = {} THEN None ELSE Some(SetMin(c))
Line_end_of_current_word_spillover(l) ==
    IF WordEnds(l.string) = {} THEN None ELSE Some(SetMin(WordEnds(l.string)))

\* Buffer::begining_of_current_word
begining_of_current_word(t, pos) ==
    LET RECURSIVE Up(_)
        Up(h) ==
            IF h >= 1
            THEN LET r == Line_begining_of_current_word_spillover(t[h])
                 IN  IF r # None THEN Pos(h - 1, r[1]) ELSE Up(h - 1)
            ELSE Pos(0, 0)
    IN  IF t = <<>> THEN pos
        ELSE LET r == Line_begining_of_current_word(t[pos.height + 1], pos.width)
             IN  IF r # None THEN Pos(pos.height, r[1]) ELSE Up(pos.height)

\* Buffer::begining_of_next_word
begining_of_next_word(t, pos) ==
    LET max == SatSub(Len(t), 1)
        RECURSIVE Down(_)
        Down(h) ==
            IF h < max
            THEN LET r == Line_begining_of_next_word_spillover(t[h + 2])
                 IN  IF r # None THEN Pos(h + 1, r[1]) ELSE Down(h + 1)
            ELSE Pos(h, grapheme_len(t[Len(t)]))
    IN  IF t = <<>> THEN pos
        ELSE LET r == Line_begining_of_next_word(t[pos.height + 1], pos.width)
             IN  IF r # None THEN Pos(pos.height, r[1]) ELSE Down(pos.height)

\* an end_of_current_word that ends on the last line's length
end_of_current_word_past_end(t, pos) ==
    LET RECURSIVE Down(_)
        Down(h) ==
            IF h < SatSub(Len(t), 1)
            THEN LET r == Line_end_of_current_word_spillover(t[h + 2])
                 IN  IF r # None THEN Pos(h + 1, r[1]) ELSE Down(h + 1)
            ELSE Pos(h, grapheme_len(t[Len(t)]))
    IN  IF t = <<>> THEN pos
        ELSE LET r == Line_end_of_current_word(t[pos.height + 1], pos.width)
             IN  IF r # None THEN Pos(pos.height, r[1]) ELSE Down(pos.height)

\* an end_of_current_word that looks no further than the next line
end_of_current_word_one_line(t, pos) ==
    IF t = <<>> THEN pos
    ELSE LET r == Line_end_of_current_word(t[pos.height + 1], pos.width)
             h == pos.height
         IN  IF r # None THEN Pos(h, r[1])
             ELSE IF h + 1 < Len(t)
                     /\ Line_end_of_current_word_spillover(t[h + 2]) # None
                  THEN Pos(h + 1, Line_end_of_current_word_spillover(t[h + 2])[1])
                  ELSE Pos(h, SatSub(grapheme_len(t[Len(t)]), 1))

\* Buffer::end_of_current_word
end_of_current_word(t, pos) ==
    LET max_height == SatSub(Len(t), 1)
        RECURSIVE Down(_)
        Down(h) ==
            IF h < max_height
            THEN LET r == Line_end_of_current_word_spillover(t[h + 2])
                 IN  IF r # None THEN Pos(h + 1, r[1]) ELSE Down(h + 1)
            ELSE Pos(h, SatSub(grapheme_len(t[Len(t)]), 1))
    IN  IF t = <<>> THEN pos
        ELSE LET r == Line_end_of_current_word(t[pos.height + 1], pos.width)
             IN  IF r # None THEN Pos(pos.height, r[1]) ELSE Down(pos.height)

VimWordCommands == {"StartOfNextWord", "EndOfCurrentWord", "BeginingOfCurrentWord"}

\* VimModeCommands::StartOfNextWord, EndOfCurrentWord, BeginingOfCurrentWord:
\* the Buffer method moves VimMode.cursor_position; nothing else is updated
VimWord(cmd) ==
    /\ mode = "vim"
    /\ cmd \in VimWordCommands
    /\ IF text # <<>> /\ vim_cursor.height >= Len(text)
       THEN /\ mode' = "panic"
            /\ fatal' = "index out of bounds"
            /\ UNCHANGED vim_cursor
       ELSE /\ vim_cursor' =
                 CASE cmd = "StartOfNextWord" -> begining_of_next_word(text, vim_cursor)
                   [] cmd = "EndOfCurrentWord" -> end_of_current_word(text, vim_cursor)
                   [] OTHER -> begining_of_current_word(text, vim_cursor)
            /\ UNCHANGED <<mode, fatal>>
    /\ last' = cmd
    /\ UNCHANGED <<text, is_saved, should_quit, disk, vim_size, queue,
                   vim_max_width, vim_offset>>
    /\ VimFrame

\* files with words, runs of spaces, a blank line and an empty line
WordFiles ==
    {<<>>,
     <<<<"a", SP, "a", "a", SP, NL, SP, SP, NL, NL, SP, "a", "a", NL>>>>,
     <<<<SP, "a", NL, NL, "a", "a", SP, "a", NL, SP, NL>>>>,
     <<<<"a", SP, "E6", "BC", "A2", "a", NL, "a", "a", NL>>>>}

WordInit == InitWith(WordFiles, {Size(4, 6)})

WordNext ==
    \/ \E d \in Directions : NoTick /\ Move(d)
    \/ \E d \in {"Left", "Right"} : NoTick /\ JumpWord(d)
    \/ NoTick /\ EnterVim
    \/ \E d \in VimMoveDirections : NoTick /\ VimMove(d)
    \/ \E c \in VimWordCommands : NoTick /\ VimWord(c)
    \/ NoTick /\ VimExit

WordSpec == WordInit /\ [][WordNext]_vars


WordMotions == {"find_next_word", "find_prev_word", "begining_of_current_word",
                "begining_of_next_word", "end_of_current_word"}
ForwardMotions == {"find_next_word", "begining_of_next_word", "end_of_current_word"}

\* the step that runs motion m, and the cursor it is given
MotionStep(m) ==
    CASE m = "find_next_word" -> JumpWord("Right")
      [] m = "find_prev_word" -> JumpWord("Left")
      [] m = "begining_of_current_word" -> VimWord("BeginingOfCurrentWord")
      [] m = "begining_of_next_word" -> VimWord("StartOfNextWord")
      [] OTHER -> VimWord("EndOfCurrentWord")
MotionCursor(m) ==
    IF m \in {"find_next_word", "find_prev_word"} THEN cursor_position ELSE vim_cursor

\* what line l answers to motion m from column w, and when asked as the
\* line the motion spilled over to
SameLineAnswer(m, l, w) ==
    CASE m = "find_next_word" -> get_next_word(l, w)
      [] m = "find_prev_word" -> get_prev_word(l, w)
      [] m = "begining_of_current_word" -> Line_begining_of_current_word(l, w)
      [] m = "begining_of_next_word" -> Line_begining_of_next_word(l, w)
      [] OTHER -> Line_end_of_current_word(l, w)
SpilloverAnswer(m, l) ==
    CASE m = "find_next_word" -> next_word_spillover(l)
      [] m = "find_prev_word" -> get_prev_word_spillover(l)
      [] m = "begining_of_current_word" -> Line_begining_of_current_word_spillover(l)
      [] m = "begining_of_next_word" -> Line_begining_of_next_word_spillover(l)
      [] OTHER -> Line_end_of_current_word_spillover(l)

\* the rows after (before) row h that answer motion m
AnsweringRows(m, t, h) ==
    {k \in 0..(Len(t) - 1) :
        /\ IF m \in ForwardMotions THEN k > h ELSE k < h
        /\ SpilloverAnswer(m, t[k + 1]) # None}

\* where the two-phase search of motion m ends from pos
MotionTarget(m, t, pos) ==
    IF t = <<>> THEN pos
    ELSE IF SameLineAnswer(m, t[pos.height + 1], pos.width) # None
    THEN Pos(pos.height, SameLineAnswer(m, t[pos.height + 1], pos.width)[1])
    ELSE LET rows == AnsweringRows(m, t, pos.height)
             k == IF m \in ForwardMotions THEN SetMin(rows) ELSE SetMax(rows)
         IN  IF rows # {} THEN Pos(k, SpilloverAnswer(m, t[k + 1])[1])
             ELSE IF m \notin ForwardMotions THEN Pos(0, 0)
             ELSE Pos(Len(t) - 1,
                      IF m = "end_of_current_word"
                      THEN SatSub(Len(t[Len(t)].string), 1)
                      ELSE Len(t[Len(t)].string))

\* C34: each word motion keeps the cursor's row when the current line yields
\* an answer; otherwise it visits the adjacent lines one at a time in its
\* direction and stops at the first that yields one; when none does, a
\* forward motion ends on the last row at that line's length
\* (end_of_current_word: length - 1) and a backward motion at (0, 0); on an
\* empty buffer the cursor is unchanged.
C34_WordMotionSpillsOver ==
    [][\A m \in WordMotions :
          (MotionStep(m) /\ (text = <<>> \/ MotionCursor(m).height < Len(text))) =>
              /\ mode' = mode
              /\ MotionCursor(m)' = MotionTarget(m, text, MotionCursor(m))]_vars

\* w from row 0 went past the empty row 1 to the first word of row 2
C34_Witness ==
    /\ last = "StartOfNextWord"
    /\ mode = "vim"
    /\ Len(text) = 4
    /\ text[1].string = <<SP, "a">>
    /\ text[2].string = <<>>
    /\ vim_cursor = Pos(2, 0)


\* e pressed with the cursor on a row of the buffer
EndOfWordStep == VimWord("EndOfCurrentWord") /\ vim_cursor.height < Len(text)

\* the word ends of the cursor's row at or right of the cursor
EndsFromCursor ==
    {i \in WordEnds(text[vim_cursor.height + 1].string) : i >= vim_cursor.width}

CurrentResults == IF stack = <<>> THEN <<>> ELSE stack[Len(stack)]

\* C36: in search mode, whenever the current result set is non-empty the
\* match index is a valid index into it; Ctrl-N advances it by one and wraps
\* from the last match to 0, Ctrl-P retreats by one and wraps from 0 to the
\* last match, and Ctrl-N followed by Ctrl-P restores the index.
C36_MatchIndexCycles ==
    [][LET n == Len(CurrentResults)
       IN  /\ (mode' = "search" /\ CurrentResults' # <<>>) =>
                  search_index' < Len(CurrentResults')
           /\ \A k \in KeyKinds :
                /\ (SearchNext(k) /\ n > 0) =>
                      /\ search_index' = (search_index + 1) % n
                      /\ search_previous(Srch)' = search_index
                /\ (SearchPrevious(k) /\ n > 0) =>
                      search_index' = (search_index + n - 1) % n]_vars

\* Ctrl-P on the first of several matches went to the last one
C36_Witness ==
    /\ mode = "search"
    /\ last = "SearchPrevious"
    /\ Len(CurrentResults) >= 2
    /\ search_index = Len(CurrentResults) - 1


\* the distance between two rows
RowDistance(a, b) == IF a >= b THEN a - b ELSE b - a

\* C37: Search::find_relative_start returns Some(the index of the match
\* closest to the pre-search cursor row) whenever the current result set is
\* non-empty, and None only when there is no search result.
C37_RelativeStartIsClosest ==
    (mode = "search" /\ CurrentResults # <<>>) =>
        LET h == previous_position.height
            r == find_relative_start(stack, h)
        IN  /\ r # None
            /\ r[1] < Len(CurrentResults)
            /\ \A j \in 1..Len(CurrentResults) :
                 RowDistance(CurrentResults[r[1] + 1].height, h)
                     <= RowDistance(CurrentResults[j].height, h)


\* C38: in highlight mode the moving endpoint always satisfies
\* height <= buffer.len() - 1 and width <= the length of its line, for any
\* sequence of arrow keys from any in-bounds anchor (Down on the last row
\* and Up on row 0 do nothing), so no line lookup with the endpoint is out of
\* bounds; the anchor and the buffer are not changed by arrow keys.
C38_EndpointStaysInBuffer ==
    [][\A d \in {"Right", "Left", "Down", "Up"} :
          (HighlightMove(d) /\ InBuffer(text, cursor_position) /\ InBuffer(text, end)) =>
              /\ mode' = "highlight"
              /\ InBuffer(text', end')
              /\ (d = "Down" /\ end.height = Len(text) - 1) => end' = end
              /\ (d = "Up" /\ end.height = 0) => end' = end
              /\ UNCHANGED <<text, cursor_position>>]_vars


\* a step in which evaluate_event returns from a Quit command: Quit itself
\* when no prompt is needed, the answer to the prompt, or the Enter that
\* ends the filename entry the save choice asked for; a save that panics
\* does not return
QuitProcessed ==
    /\ mode' # "panic"
    /\ \/ Quit /\ mode' # "prompt"
       \/ \E key \in PromptKeys, io \in IOOutcomes :
            Prompt(key, io) /\ mode' \notin {"prompt", "filename"}
       \/ \E io \in IOOutcomes : NameEnter(io) /\ caller = "quit"

\* C39: once a Quit command has been processed, with any confirmation prompt
\* resolved, should_quit is true and stays true, and the main loop reads and
\* processes no further input event before it terminates; Quit on a saved or
\* empty buffer does so without entering the confirmation prompt.
C39_QuitEndsTheLoop ==
    [][/\ QuitProcessed => (should_quit' /\ mode' = "done")
       /\ ~should_quit
       /\ (Quit /\ (is_saved \/ text = <<>>)) => (should_quit' /\ mode' = "done")]_vars

\* Quit on a modified unnamed buffer, the save choice, a name and Enter: the
\* buffer was saved and run has returned
C39_Witness ==
    /\ last = "NameQuitSave"
    /\ mode = "done"
    /\ should_quit
    /\ is_saved

====
